---- MODULE Spec2Model ----
(***************************************************************************)
(* Documentation analysis engine of Documenter-MCP:                        *)
(*   parsers/base.py      PythonParser (extraction)                        *)
(*   analyzers/checker.py DocumentationChecker (presence/format/complete)  *)
(*   analyzers/evaluator.py DocumentationEvaluator (clarity/sync/terms)    *)
(*   core/orchestrator.py DocumentationOrchestrator.analyze_project        *)
(*                                                                         *)
(* Text is modelled at the granularity the regular expressions of the      *)
(* source observe it:                                                      *)
(*  - an identifier is a sequence of tokens, "_" being one underscore and  *)
(*    any other token a run of letters (so startswith('__') is a test on   *)
(*    the first two tokens);                                               *)
(*  - a terminology word is a sequence of characters;                      *)
(*  - a doc blob is a sequence of lines, each line one of the shapes the   *)
(*    patterns of checker.py/evaluator.py tell apart (see Line shapes).    *)
(***************************************************************************)
EXTENDS Integers, Sequences, FiniteSets, TLC

VARIABLES
    config,               \* ServerConfig.analysis toggles + python doc style
    hashOrder,            \* iteration order of str sets in this process
    pc,                   \* position inside analyze_project
    files,                \* result of _get_files_to_analyze (source files)
    idx,                  \* loop index of the current for-loop
    project_result,       \* ProjectAnalysisResult being built / returned
    project_terminology,  \* DocumentationEvaluator.project_terminology
    probe,                \* arguments of a function applied on its own
    answer,               \* what it returned
    exit_code             \* process exit status of `check`, once it has ended

engine == <<config, hashOrder, pc, files, idx, project_result, project_terminology>>
probing == <<probe, answer>>
vars == <<engine, probing, exit_code>>

-----------------------------------------------------------------------------
(* Bounds *)

MaxFiles == 2
MaxIssues == 4
\* longest raw doc blob given to _clean_docstring, in characters
MaxDocLen == 7
\* longest doc blob given to _parse_docstring_sections, in lines
MaxDocLines == 4
\* analyze_project calls made on one orchestrator
MaxRuns == 2

-----------------------------------------------------------------------------
(* Generic helpers *)

Range(s) == {s[i] : i \in 1..Len(s)}

RECURSIVE SeqSum(_)
SeqSum(s) == IF s = <<>> THEN 0 ELSE Head(s) + SeqSum(Tail(s))

RECURSIVE Concat(_)
Concat(ss) == IF ss = <<>> THEN <<>> ELSE Head(ss) \o Concat(Tail(ss))

SeqsUpTo(S, n) == UNION {[1..k -> S] : k \in 0..n}

\* no two positions hold the same entry: the paths of a tree are distinct
Distinct(s) == \A i, j \in 1..Len(s) : i # j => s[i] # s[j]

\* str.startswith / str.endswith on token sequences
StartsWith(s, p) == Len(s) >= Len(p) /\ SubSeq(s, 1, Len(p)) = p
EndsWith(s, p) == Len(s) >= Len(p) /\ SubSeq(s, Len(s) - Len(p) + 1, Len(s)) = p

\* the leftmost of a set of positions
Least(S) == CHOOSE j \in S : \A m \in S : j <= m

\* a set of strings listed in the iteration order of this process
RECURSIVE InOrder(_, _)
InOrder(order, S) ==
    IF order = <<>> THEN <<>>
    ELSE (IF Head(order) \in S THEN <<Head(order)>> ELSE <<>>) \o InOrder(Tail(order), S)

-----------------------------------------------------------------------------
(* models.py *)

Severities == {"low", "medium", "high", "critical"}

MISSING == "missing"
INCOMPLETE == "incomplete"
OUTDATED == "outdated"
GOOD == "good"
EXCELLENT == "excellent"

\* CodeElementType
T_FUNCTION == "function"
T_METHOD == "method"
T_CLASS == "class"
T_MODULE == "module"

\* DocumentationIssue; message is the f-string's template and its arguments
Issue(el, type, sev, tmpl, a, b) ==
    [element |-> el, issue_type |-> type, severity |-> sev,
     message |-> [t |-> tmpl, a |-> a, b |-> b]]

-----------------------------------------------------------------------------
(* Line shapes of a doc blob.  Fields: k shape, name, desc, terms.         *)
(*   text    prose without a `word:` at its start; terms = the words of    *)
(*           the line that matter to the terminology pass                  *)
(*   blank   empty or whitespace-only line                                 *)
(*   hdr     a section header line `Name:` (Args, Returns, Raises)         *)
(*   entry   `name: desc` (desc possibly empty)                            *)
(*   sphinx  `:param name: desc`                                           *)
(*   javadoc `@param name desc`                                            *)
(*   jsdoc   `@param {type} name desc`                                     *)

L_text(ts) == [k |-> "text", name |-> "", desc |-> "x", terms |-> ts]
L_blank == [k |-> "blank", name |-> "", desc |-> "", terms |-> <<>>]
L_hdr(h) == [k |-> "hdr", name |-> h, desc |-> "", terms |-> <<>>]
L_entry(n, d) == [k |-> "entry", name |-> n, desc |-> d, terms |-> <<>>]
L_sphinx(n, d) == [k |-> "sphinx", name |-> n, desc |-> d, terms |-> <<>>]
L_javadoc(n, d) == [k |-> "javadoc", name |-> n, desc |-> d, terms |-> <<>>]
L_jsdoc(n, d) == [k |-> "jsdoc", name |-> n, desc |-> d, terms |-> <<>>]

\* A doc blob: its lines, and what the text heuristics of the evaluator
\* (textstat readability, word lists) find in its prose.
Doc(ls, cl, tmp) == [lines |-> ls, clarity |-> cl, temporal |-> tmp]
NoDoc == Doc(<<>>, <<>>, FALSE)

\* truthiness of element.docstring (None and "" are both falsy)
HasDoc(d) == d.lines # <<>>

-----------------------------------------------------------------------------
(* Source files as ast.parse sees them.                                    *)
(*   node: [kind "def"|"class", name, args, returns, doc, body]            *)
(*   file: [stem, ok, doc, body]; ok = FALSE when ast.parse raises         *)
(* doc is the doc blob of the declaration in dedented form.                *)

Def(name, args, returns, doc, body) ==
    [kind |-> "def", name |-> name, args |-> args, returns |-> returns,
     doc |-> doc, body |-> body]
Class(name, doc, body) ==
    [kind |-> "class", name |-> name, args |-> <<>>, returns |-> FALSE,
     doc |-> doc, body |-> body]
\* ok: ast.parse accepts the content; raises: an exception escapes the
\* checker or the evaluator while this file is analysed
SourceFile(stem, ok, doc, body) ==
    [stem |-> stem, ok |-> ok, raises |-> FALSE, doc |-> doc, body |-> body]

\* ast.walk: breadth-first over the declaration nodes below the module
RECURSIVE ast_walk(_)
ast_walk(queue) ==
    IF queue = <<>> THEN <<>>
    ELSE <<Head(queue)>> \o ast_walk(Tail(queue) \o Head(queue).body)

-----------------------------------------------------------------------------
(* parsers/base.py *)

\* CodeElement(...) with the dataclass defaults of models.py
CodeElement(name, type, doc) ==
    [name |-> name, element_type |-> type, docstring |-> doc,
     summary |-> <<>>, parameters |-> <<>>, return_info |-> FALSE,
     exceptions |-> <<>>, methods |-> <<>>, classes |-> <<>>, functions |-> <<>>,
     status |-> MISSING, issues |-> <<>>, visibility |-> "public"]

IsBlank(line) == line.k = "blank"

\* str.strip() of a joined block of lines: blank lines at both ends go
RECURSIVE StripLines(_)
StripLines(ls) ==
    IF ls = <<>> THEN <<>>
    ELSE IF IsBlank(Head(ls)) THEN StripLines(Tail(ls))
    ELSE IF IsBlank(ls[Len(ls)]) THEN StripLines(SubSeq(ls, 1, Len(ls) - 1))
    ELSE ls

\* section_patterns of _parse_docstring_sections: header line -> section name
section_patterns(line) ==
    IF line.k # "hdr" THEN "none"
    ELSE CASE line.name = "Args" -> "args"
           [] line.name = "Returns" -> "returns"
           [] line.name = "Raises" -> "raises"
           [] OTHER -> "none"

\* the dict `sections` after one more key assignment
PutSection(sections, key, val) ==
    [k \in DOMAIN sections \cup {key} |-> IF k = key THEN val ELSE sections[k]]

RECURSIVE ParseSectionsFrom(_, _, _, _)
ParseSectionsFrom(ls, current_section, current_content, sections) ==
    IF ls = <<>> THEN
        IF current_content # <<>>
        THEN PutSection(sections, current_section, StripLines(current_content))
        ELSE sections
    ELSE IF section_patterns(Head(ls)) # "none" THEN
        ParseSectionsFrom(Tail(ls), section_patterns(Head(ls)), <<>>,
            IF current_content # <<>>
            THEN PutSection(sections, current_section, StripLines(current_content))
            ELSE sections)
    ELSE ParseSectionsFrom(Tail(ls), current_section,
                           Append(current_content, Head(ls)), sections)

_parse_docstring_sections(doc) ==
    IF ~HasDoc(doc) THEN <<>>
    ELSE ParseSectionsFrom(doc.lines, "summary", <<>>, <<>>)

\* _parse_exceptions: `Type: text` lines of the raises section; an exception
\* is recorded only when some description text was collected for it
RECURSIVE ParseExceptionsFrom(_, _, _)
ParseExceptionsFrom(ls, current_exception, current_desc) ==
    LET saved == IF current_exception # "" /\ current_desc
                 THEN <<current_exception>> ELSE <<>>
    IN  IF ls = <<>> THEN saved
        ELSE IF IsBlank(Head(ls)) THEN
            ParseExceptionsFrom(Tail(ls), current_exception, current_desc)
        ELSE IF Head(ls).k \in {"entry", "hdr"} THEN
            saved \o ParseExceptionsFrom(Tail(ls), Head(ls).name, Head(ls).desc # "")
        ELSE ParseExceptionsFrom(Tail(ls), current_exception,
                                 current_desc \/ current_exception # "")

_parse_exceptions(raises_section) == ParseExceptionsFrom(raises_section, "", FALSE)

_get_visibility(name) ==
    IF StartsWith(name, <<"_", "_">>) /\ EndsWith(name, <<"_", "_">>) THEN "special"
    ELSE IF StartsWith(name, <<"_", "_">>) THEN "private"
    ELSE IF StartsWith(name, <<"_">>) THEN "protected"
    ELSE "public"

\* hasattr(node, 'parent') and isinstance(node.parent, ast.ClassDef):
\* the nodes ast.parse builds carry no `parent` attribute
_is_method(node) ==
    "parent" \in DOMAIN node /\ node["parent"] = "class"

_extract_parameters(node) ==
    IF node.args # <<>> /\ Head(node.args) = "self" /\ _is_method(node)
    THEN Tail(node.args)
    ELSE node.args

\* extract_docstring / ast.get_docstring: the blob with the whitespace at both
\* ends stripped (_clean_docstring, inspect.cleandoc), falsy when nothing is left
extract_docstring(node) == [node.doc EXCEPT !.lines = StripLines(@)]

\* inspect.cleandoc on the lines of a blob.  The lines after the first stand
\* at the indentation of the body they are written in, blank ones included.
\* The indentation is cut when a non-blank line after the first sets the
\* margin, and then the empty lines at both ends are dropped; with no such
\* line nothing is cut, only the first line is left-stripped and dropped when
\* empty, and the blank lines after it stay as whitespace.
inspect_cleandoc(lines) ==
    IF lines = <<>> THEN <<>>
    ELSE IF \E i \in 2..Len(lines) : ~IsBlank(lines[i]) THEN StripLines(lines)
    ELSE IF IsBlank(lines[1]) THEN Tail(lines)
    ELSE lines

\* ast.get_docstring(node): the blob through inspect.cleandoc
ast_get_docstring(node) == [node.doc EXCEPT !.lines = inspect_cleandoc(@)]

\* lines = docstring.strip().split('\n'); summary = lines[0], '' for whitespace
_parse_function(node) ==
    LET element == [CodeElement(node.name,
                                IF _is_method(node) THEN T_METHOD ELSE T_FUNCTION,
                                NoDoc)
                    EXCEPT !.parameters = _extract_parameters(node),
                           !.return_info = node.returns]
        first(ls) == IF ls = <<>> THEN <<>> ELSE <<ls[1]>>
        docstring == ast_get_docstring(node)
    IN  IF HasDoc(docstring)
        THEN [element EXCEPT !.docstring = docstring,
                             !.summary = first(StripLines(docstring.lines))]
        ELSE element

_parse_docstring_info(element) ==
    LET sections == _parse_docstring_sections(element.docstring)
        e1 == IF "summary" \in DOMAIN sections
              THEN [element EXCEPT !.summary =
                        IF sections["summary"] = <<>> THEN <<>>
                        ELSE SubSeq(sections["summary"], 1, 1)]
              ELSE element
    IN  IF "raises" \in DOMAIN sections
        THEN [e1 EXCEPT !.exceptions = _parse_exceptions(sections["raises"])]
        ELSE e1

_parse_class(node) ==
    LET element == [CodeElement(node.name, T_CLASS, extract_docstring(node))
                    EXCEPT !.visibility = _get_visibility(node.name)]
        defs == SelectSeq(node.body, LAMBDA item : item.kind = "def")
        withMethods == [element EXCEPT
                        !.methods = [i \in 1..Len(defs) |-> _parse_function(defs[i])]]
    IN  IF HasDoc(withMethods.docstring)
        THEN _parse_docstring_info(withMethods)
        ELSE withMethods

\* parse_file: [] on a parse error, else the module element followed by one
\* element per FunctionDef/ClassDef node in ast.walk order; module.functions
\* and module.classes alias those elements (kept as positions in the list)
parse_file(file) ==
    IF ~file.ok THEN <<>>
    ELSE
        LET nodes == ast_walk(file.body)
            parsed == [i \in 1..Len(nodes) |->
                         IF nodes[i].kind = "def" THEN _parse_function(nodes[i])
                         ELSE _parse_class(nodes[i])]
            positions(kind) ==
                LET RECURSIVE pos(_)
                    pos(i) == IF i > Len(nodes) THEN <<>>
                              ELSE (IF nodes[i].kind = kind THEN <<i + 1>> ELSE <<>>)
                                   \o pos(i + 1)
                IN  pos(1)
            module_element ==
                [CodeElement(file.stem, T_MODULE, extract_docstring(file))
                 EXCEPT !.functions = positions("def"),
                        !.classes = positions("class")]
        IN  <<module_element>> \o parsed

-----------------------------------------------------------------------------
(* How the regular expressions of checker.py / evaluator.py read a blob    *)

\* characters of the parameter names (for patterns that match a prefix)
Chars(n) ==
    CASE n = "a" -> <<"a">>
      [] n = "b" -> <<"b">>
      [] n = "ab" -> <<"a", "b">>
      [] n = "self" -> <<"s", "e", "l", "f">>
      [] n = "cls" -> <<"c", "l", "s">>
      [] OTHER -> <<n>>

\* the line, after leading whitespace, starts with `\w+:`
WordColonStart(line) == line.k \in {"hdr", "entry"}

\* the line contains a `\w+:` somewhere
HasWordColon(line) == line.k \in {"hdr", "entry", "sphinx"}

\* the line, after leading whitespace, starts with a word character
WordStart(line) == line.k \in {"text", "hdr", "entry"}

\* index of the first non-blank line after line i (0 when there is none)
NextNonBlank(lines, i) ==
    LET first(later) == IF later = {} THEN 0 ELSE Least(later)
    IN  first({j \in (i + 1)..Len(lines) : ~IsBlank(lines[j])})

\* re.search(r'Args:\s*\n(.*?)(?=\n\s*\w+:|$)', docstring, re.DOTALL).group(1)
\* (and the same pattern with Raises:) as a range of lines <<first, last>>,
\* <<0, 0>> when there is no match.
\* `Args:\s*\n` takes the first `Args:` that ends its line and is followed
\* by a non-blank line, the greedy \s* skipping the blank lines after it;
\* the lazy group then grows line by line and stops at the first line end
\* that is followed (blank lines skipped) by a line starting with `\w+:`.
HeaderSectionRange(lines, h) ==
    LET stops(first) == {k \in first..Len(lines) :
                            \/ k = Len(lines)
                            \/ /\ NextNonBlank(lines, k) # 0
                               /\ WordColonStart(lines[NextNonBlank(lines, k)])}
        group(first) == <<first, Least(stops(first))>>
        search(hdrs) == IF hdrs = {} THEN <<0, 0>>
                        ELSE group(NextNonBlank(lines, Least(hdrs)))
    IN  search({i \in 1..Len(lines) :
                  /\ lines[i].k = "hdr" /\ lines[i].name = h
                  /\ NextNonBlank(lines, i) # 0})

HeaderSection(lines, h) ==
    LET group(r) == IF r[1] = 0 THEN <<>> ELSE SubSeq(lines, r[1], r[2])
    IN  group(HeaderSectionRange(lines, h))

ArgsSection(lines) == HeaderSection(lines, "Args")

\* checker: finditer(r'(\w+):\s*(.*?)(?=\n\s*\w+:|$)', args_section, DOTALL).
\* No line after the first of the section starts with `\w+:`, so the first
\* `\w+:` of the section is the only match and its description runs to the
\* end of the section.  Result: <<name, description>> pairs.
GoogleDocumented(lines) ==
    LET rest(sec, i) == \E j \in (i + 1)..Len(sec) : ~IsBlank(sec[j])
        match(sec, i) ==
            <<[name |-> sec[i].name,
               desc |-> IF sec[i].desc # "" \/ rest(sec, i) THEN "x" ELSE ""]>>
        first(sec, hits) == IF hits = {} THEN <<>> ELSE match(sec, Least(hits))
        finditer(sec) == first(sec, {i \in 1..Len(sec) : HasWordColon(sec[i])})
    IN  finditer(ArgsSection(lines))

\* finditer(r':param (\w+):\s*(.*?)(?=\n|$)', docstring)
SphinxDocumented(lines) ==
    LET pairs(sp) == [i \in 1..Len(sp) |-> [name |-> sp[i].name, desc |-> sp[i].desc]]
    IN  pairs(SelectSeq(lines, LAMBDA l : l.k = "sphinx"))

\* dict built by successive assignments documented[name] = desc
RECURSIVE DictOf(_)
DictOf(pairs) ==
    IF pairs = <<>> THEN <<>>
    ELSE PutSection(DictOf(SubSeq(pairs, 1, Len(pairs) - 1)),
                    pairs[Len(pairs)].name, pairs[Len(pairs)].desc)

\* re.search(r'\n\s*Name:', docstring): a header line that is not the first
HasHeaderAfterFirst(lines, h) ==
    \E i \in 2..Len(lines) : lines[i].k = "hdr" /\ lines[i].name = h

-----------------------------------------------------------------------------
(* analyzers/checker.py *)

\* variant: private elements are asked for documentation too
_should_have_documentation_private(element) ==
    IF element.visibility \in {"public", "protected", "private"} THEN TRUE
    ELSE IF element.visibility = "special" THEN
        element.name \in {<<"_", "_", "init", "_", "_">>, <<"_", "_", "str", "_", "_">>,
                          <<"_", "_", "repr", "_", "_">>, <<"_", "_", "call", "_", "_">>,
                          <<"_", "_", "enter", "_", "_">>, <<"_", "_", "exit", "_", "_">>,
                          <<"_", "_", "iter", "_", "_">>, <<"_", "_", "next", "_", "_">>}
    ELSE TRUE

_should_have_documentation(element) ==
    IF element.visibility = "public" THEN TRUE
    ELSE IF element.visibility = "protected" THEN TRUE
    ELSE IF element.visibility = "private" THEN FALSE
    ELSE IF element.visibility = "special" THEN
        element.name \in {<<"_", "_", "init", "_", "_">>, <<"_", "_", "str", "_", "_">>,
                          <<"_", "_", "repr", "_", "_">>, <<"_", "_", "call", "_", "_">>,
                          <<"_", "_", "enter", "_", "_">>, <<"_", "_", "exit", "_", "_">>,
                          <<"_", "_", "iter", "_", "_">>, <<"_", "_", "next", "_", "_">>}
    ELSE TRUE

\* not element.docstring or not element.docstring.strip()
DocstringBlank(doc) == ~HasDoc(doc) \/ \A i \in 1..Len(doc.lines) : IsBlank(doc.lines[i])

\* variant: every missing docstring is reported as high
_check_presence_high(cfg, element, el) ==
    IF ~cfg.check_presence THEN <<>>
    ELSE IF _should_have_documentation(element) /\ DocstringBlank(element.docstring)
    THEN <<Issue(el, "missing_documentation", "high",
                 "is missing documentation", element.name, <<element.element_type>>)>>
    ELSE <<>>

_check_presence(cfg, element, el) ==
    IF ~cfg.check_presence THEN <<>>
    ELSE IF _should_have_documentation(element) /\ DocstringBlank(element.docstring)
    THEN <<Issue(el, "missing_documentation",
                 IF element.visibility = "public" THEN "high" ELSE "medium",
                 "is missing documentation", element.name, <<element.element_type>>)>>
    ELSE <<>>

IsCallable(element) == element.element_type \in {T_FUNCTION, T_METHOD}

_check_google_format(element, el) ==
    LET lines == element.docstring.lines
    IN  IF ~IsCallable(element) THEN <<>>
        ELSE (IF element.parameters # <<>> /\ ~HasHeaderAfterFirst(lines, "Args")
              THEN <<Issue(el, "format_violation", "low",
                           "Google-style docstring should have 'Args:' section", <<>>, <<>>)>>
              ELSE <<>>)
          \o (IF element.return_info /\ ~HasHeaderAfterFirst(lines, "Returns")
              THEN <<Issue(el, "format_violation", "low",
                           "Google-style docstring should have 'Returns:' section", <<>>, <<>>)>>
              ELSE <<>>)

\* re.search(r'\n\s*Parameters\s*\n\s*-+', docstring): no line shape of the
\* model is a `Parameters` title over a dashed underline
_check_numpy_format(element, el) ==
    IF IsCallable(element) /\ element.parameters # <<>>
    THEN <<Issue(el, "format_violation", "low",
                 "NumPy-style docstring should have 'Parameters' section", <<>>, <<>>)>>
    ELSE <<>>

\* one issue per parameter p without a match of the style's pattern
PerParameterFormat(element, el, found(_), tmpl) ==
    IF ~IsCallable(element) THEN <<>>
    ELSE Concat([i \in 1..Len(element.parameters) |->
            IF found(element.parameters[i]) THEN <<>>
            ELSE <<Issue(el, "format_violation", "low", tmpl,
                         <<element.parameters[i]>>, <<>>)>>])

\* re.search(rf':param {param.name}:', docstring)
_check_sphinx_format(element, el) ==
    PerParameterFormat(element, el,
        LAMBDA p : \E i \in 1..Len(element.docstring.lines) :
                      /\ element.docstring.lines[i].k = "sphinx"
                      /\ element.docstring.lines[i].name = p,
        "Sphinx-style docstring missing ':param' directive")

\* re.search(rf'@param {param.name}', docstring): the pattern ends with the
\* name, so a tag whose name starts with it matches
_check_javadoc_format(element, el) ==
    PerParameterFormat(element, el,
        LAMBDA p : \E i \in 1..Len(element.docstring.lines) :
                      /\ element.docstring.lines[i].k = "javadoc"
                      /\ StartsWith(Chars(element.docstring.lines[i].name), Chars(p)),
        "Javadoc-style comment missing '@param' tag")

\* re.search(rf'@param {{[^}}]*}} {param.name}', docstring)
_check_jsdoc_format(element, el) ==
    PerParameterFormat(element, el,
        LAMBDA p : \E i \in 1..Len(element.docstring.lines) :
                      /\ element.docstring.lines[i].k = "jsdoc"
                      /\ StartsWith(Chars(element.docstring.lines[i].name), Chars(p)),
        "JSDoc-style comment missing '@param {type}' tag")

\* language is always "python" (PythonParser.can_parse); cfg.style is the
\* doc_format.style configured for it
_check_format(cfg, element, el) ==
    IF ~HasDoc(element.docstring) THEN <<>>
    ELSE CASE cfg.style = "google" -> _check_google_format(element, el)
           [] cfg.style = "numpy" -> _check_numpy_format(element, el)
           [] cfg.style = "sphinx" -> _check_sphinx_format(element, el)
           [] cfg.style = "javadoc" -> _check_javadoc_format(element, el)
           [] cfg.style = "jsdoc" -> _check_jsdoc_format(element, el)
           [] OTHER -> <<>>

\* first line non-empty and not starting with 'Args:', 'Parameters:', 'Returns:'
_has_summary_in_docstring(doc) ==
    /\ HasDoc(doc)
    /\ ~IsBlank(doc.lines[1])
    /\ ~(doc.lines[1].k = "hdr" /\ doc.lines[1].name \in {"Args", "Parameters", "Returns"})

\* checker._extract_documented_parameters: Google branch, then Sphinx branch
Checker_extract_documented_parameters(doc) ==
    IF ~HasDoc(doc) THEN <<>>
    ELSE DictOf(GoogleDocumented(doc.lines) \o SphinxDocumented(doc.lines))

_check_parameters_documentation(element, el) ==
    LET one(documented_params, p) ==
            IF p \in {"self", "cls"} THEN <<>>
            ELSE IF p \notin DOMAIN documented_params
            THEN <<Issue(el, "missing_parameter_doc", "medium",
                         "Parameter is not documented", <<p>>, <<>>)>>
            ELSE IF documented_params[p] = ""
            THEN <<Issue(el, "empty_parameter_doc", "low",
                         "Parameter has empty documentation", <<p>>, <<>>)>>
            ELSE <<>>
        each(documented_params) ==
            Concat([i \in 1..Len(element.parameters) |->
                      one(documented_params, element.parameters[i])])
    IN  each(Checker_extract_documented_parameters(element.docstring))

\* any of the patterns of _has_return_documentation; on the line shapes of
\* the model only r'\n\s*Returns?:\s*\w+' can match: a `Returns:` header that
\* is not the first line and is followed by a line starting with a word
_has_return_documentation(doc) ==
    /\ HasDoc(doc)
    /\ \E i \in 2..Len(doc.lines) :
          /\ doc.lines[i].k = "hdr" /\ doc.lines[i].name = "Returns"
          /\ NextNonBlank(doc.lines, i) # 0
          /\ WordStart(doc.lines[NextNonBlank(doc.lines, i)])

_check_return_documentation(element, el) ==
    IF \/ ~element.return_info
       \/ StartsWith(element.name, <<"_", "_">>)
       \/ element.name \in {<<"main">>, <<"setup">>, <<"teardown">>}
    THEN <<>>
    ELSE IF ~_has_return_documentation(element.docstring)
    THEN <<Issue(el, "missing_return_doc", "medium",
                 "Return value is not documented", <<>>, <<>>)>>
    ELSE <<>>

\* _extract_documented_exceptions: names before a colon in the Raises: match
_extract_documented_exceptions(doc) ==
    IF ~HasDoc(doc) THEN {}
    ELSE LET finditer(sec) ==
                 {sec[i].name : i \in {j \in 1..Len(sec) : HasWordColon(sec[j])}}
         IN  finditer(HeaderSection(doc.lines, "Raises"))

\* element.exceptions is only ever filled for classes (_parse_docstring_info),
\* and this check only runs for functions and methods
_check_exceptions_documentation(element, el) ==
    IF element.exceptions = <<>> THEN <<>>
    ELSE Concat([i \in 1..Len(element.exceptions) |->
            IF element.exceptions[i] \in _extract_documented_exceptions(element.docstring)
            THEN <<>>
            ELSE <<Issue(el, "missing_exception_doc", "low",
                         "Exception is not documented", <<element.exceptions[i]>>, <<>>)>>])

_check_completeness(element, el) ==
    IF ~HasDoc(element.docstring) THEN <<>>
    ELSE (IF element.summary = <<>> /\ ~_has_summary_in_docstring(element.docstring)
          THEN <<Issue(el, "missing_summary", "medium",
                       "lacks a summary description", element.name, <<element.element_type>>)>>
          ELSE <<>>)
      \o (IF IsCallable(element)
          THEN _check_parameters_documentation(element, el)
               \o _check_return_documentation(element, el)
               \o _check_exceptions_documentation(element, el)
          ELSE <<>>)

SevCount(issues, sev) == Cardinality({i \in 1..Len(issues) : issues[i].severity = sev})

\* variant: two medium issues already make the element incomplete
StatusOf_two(hasdoc, critical_issues, high_issues, medium_issues, low_issues) ==
    IF ~hasdoc THEN MISSING
    ELSE IF critical_issues > 0 THEN INCOMPLETE
    ELSE IF high_issues > 0 THEN INCOMPLETE
    ELSE IF medium_issues >= 2 THEN INCOMPLETE
    ELSE IF medium_issues > 0 \/ low_issues > 3 THEN OUTDATED
    ELSE IF low_issues > 0 THEN GOOD
    ELSE EXCELLENT

\* _determine_status on the docstring's truthiness and the severity counts
StatusOf(hasdoc, critical_issues, high_issues, medium_issues, low_issues) ==
    IF ~hasdoc THEN MISSING
    ELSE IF critical_issues > 0 THEN INCOMPLETE
    ELSE IF high_issues > 0 THEN INCOMPLETE
    ELSE IF medium_issues > 2 THEN INCOMPLETE
    ELSE IF medium_issues > 0 \/ low_issues > 3 THEN OUTDATED
    ELSE IF low_issues > 0 THEN GOOD
    ELSE EXCELLENT

_determine_status(element, issues) ==
    StatusOf(HasDoc(element.docstring), SevCount(issues, "critical"),
             SevCount(issues, "high"), SevCount(issues, "medium"), SevCount(issues, "low"))

\* issues of one element, in the order presence, format, completeness
ElementIssues(cfg, element, el) ==
    (IF cfg.check_presence THEN _check_presence(cfg, element, el) ELSE <<>>)
    \o (IF HasDoc(element.docstring) /\ cfg.check_format
        THEN _check_format(cfg, element, el) ELSE <<>>)
    \o (IF HasDoc(element.docstring) /\ cfg.check_completeness
        THEN _check_completeness(element, el) ELSE <<>>)

\* _check_element: the element with issues and status set
_check_element(cfg, element, el) ==
    LET checked(issues) ==
            [element EXCEPT !.issues = [i \in 1..Len(issues) |-> issues[i].message],
                            !.status = _determine_status(element, issues)]
    IN  checked(ElementIssues(cfg, element, el))

\* coverage_score is a float quotient; kept as the fraction num/den
Frac(n, d) == [num |-> n, den |-> d]

\* variant: every element counts, whether it should be documented or not
_calculate_coverage_all(file_result) ==
    LET all == 1..Len(file_result.elements)
        total_elements == Cardinality(all)
        documented_elements ==
            Cardinality({i \in all : file_result.elements[i].status # MISSING})
    IN  [file_result EXCEPT
            !.total_elements = total_elements,
            !.documented_elements = documented_elements,
            !.coverage_score = IF total_elements > 0
                               THEN Frac(documented_elements, total_elements)
                               ELSE Frac(1, 1)]

_calculate_coverage(file_result) ==
    LET should == {i \in 1..Len(file_result.elements) :
                      _should_have_documentation(file_result.elements[i])}
        total_elements == Cardinality(should)
        documented_elements ==
            Cardinality({i \in should : file_result.elements[i].status # MISSING})
    IN  [file_result EXCEPT
            !.total_elements = total_elements,
            !.documented_elements = documented_elements,
            !.coverage_score = IF total_elements > 0
                               THEN Frac(documented_elements, total_elements)
                               ELSE Frac(1, 1)]

check_file(cfg, file_result) ==
    _calculate_coverage([file_result EXCEPT
        !.elements = [i \in 1..Len(file_result.elements) |->
                        _check_element(cfg, file_result.elements[i], i)],
        !.issues = file_result.issues \o
            Concat([i \in 1..Len(file_result.elements) |->
                      ElementIssues(cfg, file_result.elements[i], i)])])

-----------------------------------------------------------------------------
(* analyzers/evaluator.py *)

\* _evaluate_clarity: readability (textstat), vague words, long sentences,
\* passive voice, articles, grammar: functions of the prose alone, given
\* with the blob as the list of issue types they raise
ClaritySeverity(type) == IF type = "readability_poor" THEN "medium" ELSE "low"

_evaluate_clarity(element, el) ==
    IF ~HasDoc(element.docstring) THEN <<>>
    ELSE [i \in 1..Len(element.docstring.clarity) |->
            Issue(el, element.docstring.clarity[i],
                  ClaritySeverity(element.docstring.clarity[i]),
                  element.docstring.clarity[i], <<>>, <<>>)]

\* variant: the Args: section is not read
Evaluator_extract_documented_parameters_tags(doc) ==
    IF ~HasDoc(doc) THEN {}
    ELSE {doc.lines[i].name :
            i \in {j \in 1..Len(doc.lines) :
                     doc.lines[j].k \in {"sphinx", "javadoc", "jsdoc"}}}

\* evaluator._extract_documented_parameters: a set of names
Evaluator_extract_documented_parameters(doc) ==
    IF ~HasDoc(doc) THEN {}
    ELSE LET finditer(sec) ==
                 {sec[i].name : i \in {j \in 1..Len(sec) : HasWordColon(sec[j])}}
         IN  finditer(ArgsSection(doc.lines))
             \cup {doc.lines[i].name :
                     i \in {j \in 1..Len(doc.lines) :
                              doc.lines[j].k \in {"sphinx", "javadoc", "jsdoc"}}}

\* the two for-loops run over sets: order is the process's iteration order
_check_parameter_sync(order, element, el) ==
    LET issues(extra, missing) ==
            [i \in 1..Len(extra) |->
                Issue(el, "sync_extra_param", "medium",
                      "Documented parameter not found in function signature",
                      <<extra[i]>>, <<>>)]
            \o [i \in 1..Len(missing) |->
                Issue(el, "sync_missing_param", "medium",
                      "Parameter exists in code but not documented",
                      <<missing[i]>>, <<>>)]
        compare(documented_params, actual_params) ==
            issues(InOrder(order, documented_params \ actual_params),
                   InOrder(order, actual_params \ documented_params))
    IN  compare(Evaluator_extract_documented_parameters(element.docstring),
                Range(element.parameters) \ {"self", "cls"})

_check_outdated_information(element, el) ==
    IF element.docstring.temporal
    THEN <<Issue(el, "potentially_outdated", "low",
                 "Documentation contains temporal language", <<>>, <<>>)>>
    ELSE <<>>

_check_synchronization(order, element, el) ==
    IF ~HasDoc(element.docstring) THEN <<>>
    ELSE (IF IsCallable(element) THEN _check_parameter_sync(order, element, el) ELSE <<>>)
         \o _check_outdated_information(element, el)

\* issues of _evaluate_element for one element
EvaluateIssues(cfg, order, element, el) ==
    (IF cfg.evaluate_clarity THEN _evaluate_clarity(element, el) ELSE <<>>)
    \o (IF cfg.check_sync THEN _check_synchronization(order, element, el) ELSE <<>>)

\* variant: the evaluator derives the status again from its own issues
_evaluate_element_restatus(cfg, order, element, el) ==
    LET extended(issues) ==
            [element EXCEPT !.issues = @ \o [i \in 1..Len(issues) |-> issues[i].message],
                            !.status = IF issues = <<>> THEN @
                                       ELSE _determine_status(element, issues)]
    IN  extended(EvaluateIssues(cfg, order, element, el))

_evaluate_element(cfg, order, element, el) ==
    LET extended(issues) ==
            [element EXCEPT !.issues = @ \o [i \in 1..Len(issues) |-> issues[i].message]]
    IN  extended(EvaluateIssues(cfg, order, element, el))

\* the five style-signature patterns over every doc blob of the file
_analyze_documentation_styles(elements) ==
    LET docs == {elements[i].docstring.lines :
                    i \in {j \in 1..Len(elements) : HasDoc(elements[j].docstring)}}
        has(P(_, _)) == \E ls \in docs : \E i \in 1..Len(ls) : P(ls, i)
    IN  (IF has(LAMBDA ls, i : /\ i >= 2 /\ ls[i].k = "hdr" /\ ls[i].name = "Args"
                               /\ i < Len(ls))
         THEN {"google"} ELSE {})
        \cup (IF has(LAMBDA ls, i : ls[i].k = "sphinx") THEN {"sphinx"} ELSE {})
        \cup (IF has(LAMBDA ls, i : ls[i].k = "javadoc") THEN {"javadoc"} ELSE {})
        \cup (IF has(LAMBDA ls, i : ls[i].k = "jsdoc") THEN {"jsdoc"} ELSE {})

\* appends to file_result.issues only (the element's own list is untouched)
_check_file_consistency(order, file_result) ==
    LET check(styles, documented) ==
            IF Cardinality(styles) > 1 /\ documented # {}
            THEN [file_result EXCEPT !.issues = Append(@,
                    Issue(Least(documented), "inconsistent_style", "low",
                          "File uses multiple documentation styles",
                          InOrder(order, styles), <<>>))]
            ELSE file_result
    IN  check(_analyze_documentation_styles(file_result.elements),
              {i \in 1..Len(file_result.elements) :
                  HasDoc(file_result.elements[i].docstring)})

\* variant: the parameter sync check also runs on the callables that have
\* no doc blob
evaluate_file_unguarded(cfg, order, file_result) ==
    LET issues(element, i) ==
            IF HasDoc(element.docstring) THEN EvaluateIssues(cfg, order, element, i)
            ELSE IF cfg.check_sync /\ IsCallable(element)
            THEN _check_parameter_sync(order, element, i)
            ELSE <<>>
        consistency(evaluated) ==
            IF cfg.evaluate_consistency
            THEN _check_file_consistency(order, evaluated)
            ELSE evaluated
    IN  consistency([file_result EXCEPT
            !.elements = [i \in 1..Len(file_result.elements) |->
                [file_result.elements[i] EXCEPT !.issues = @ \o
                    [k \in 1..Len(issues(file_result.elements[i], i)) |->
                        issues(file_result.elements[i], i)[k].message]]],
            !.issues = @ \o Concat([i \in 1..Len(file_result.elements) |->
                issues(file_result.elements[i], i)])])

evaluate_file(cfg, order, file_result) ==
    LET consistency(evaluated) ==
            IF cfg.evaluate_consistency
            THEN _check_file_consistency(order, evaluated)
            ELSE evaluated
    IN  consistency([file_result EXCEPT
            !.elements = [i \in 1..Len(file_result.elements) |->
                IF HasDoc(file_result.elements[i].docstring)
                THEN _evaluate_element(cfg, order, file_result.elements[i], i)
                ELSE file_result.elements[i]],
            !.issues = @ \o Concat([i \in 1..Len(file_result.elements) |->
                IF HasDoc(file_result.elements[i].docstring)
                THEN EvaluateIssues(cfg, order, file_result.elements[i], i)
                ELSE <<>>])])

(* Terminology words are sequences of characters *)

IsUpper(c) == c \in {"U", "I", "D"}
IsLower(c) == c \in {"u", "s", "e", "r", "i", "d"}
ToLower(c) == CASE c = "U" -> "u" [] c = "I" -> "i" [] c = "D" -> "d" [] OTHER -> c
str_lower(w) == [i \in 1..Len(w) |-> ToLower(w[i])]

\* ([A-Z][a-z]+)* matches all of w
RECURSIVE MatchesCapGroups(_)
MatchesCapGroups(w) ==
    \/ w = <<>>
    \/ \E k \in 2..Len(w) :
          /\ IsUpper(w[1])
          /\ \A j \in 2..k : IsLower(w[j])
          /\ MatchesCapGroups(SubSeq(w, k + 1, Len(w)))

\* re.findall(r'\b[A-Z][a-z]+(?:[A-Z][a-z]+)*\b', docstring): the words of
\* the blob that the pattern matches whole
DocWords(doc) == Concat([i \in 1..Len(doc.lines) |-> doc.lines[i].terms])
TermWords(doc) == SelectSeq(DocWords(doc), LAMBDA w : w # <<>> /\ MatchesCapGroups(w))

\* project_terminology[word.lower()].add(word); the dict is kept as the list
\* of its items in insertion order
AddTerm(terminology, word) ==
    IF \E i \in 1..Len(terminology) : terminology[i].key = str_lower(word)
    THEN [i \in 1..Len(terminology) |->
            IF terminology[i].key = str_lower(word)
            THEN [terminology[i] EXCEPT !.variations = @ \cup {word}]
            ELSE terminology[i]]
    ELSE Append(terminology, [key |-> str_lower(word), variations |-> {word}])

RECURSIVE AddTerms(_, _)
AddTerms(terminology, words) ==
    IF words = <<>> THEN terminology
    ELSE AddTerms(AddTerm(terminology, Head(words)), Tail(words))

\* (project_patterns is only counted, never read: not modelled)
_collect_terminology(terminology, file_result) ==
    AddTerms(terminology,
             Concat([i \in 1..Len(file_result.elements) |->
                        TermWords(file_result.elements[i].docstring)]))

\* max(variations, key=lambda x: self.project_terminology[term_lower]): the
\* key is the same for every x, so max returns the first variation iterated
most_common(order, variations) == Head(InOrder(order, variations))

_check_terminology_consistency(order, terminology, element, el) ==
    LET perTerm(t) ==
            IF Cardinality(t.variations) > 1
            THEN LET vs == SelectSeq(InOrder(order, t.variations),
                               LAMBDA v : /\ v \in Range(DocWords(element.docstring))
                                          /\ v # most_common(order, t.variations))
                 IN  [i \in 1..Len(vs) |->
                        Issue(el, "terminology_inconsistency", "low",
                              "Inconsistent terminology", vs[i],
                              most_common(order, t.variations))]
            ELSE <<>>
    IN  Concat([i \in 1..Len(terminology) |-> perTerm(terminology[i])])

_check_cross_file_consistency(order, terminology, file_result) ==
    Concat([i \in 1..Len(file_result.elements) |->
        IF HasDoc(file_result.elements[i].docstring)
        THEN _check_terminology_consistency(order, terminology, file_result.elements[i], i)
        ELSE <<>>])

-----------------------------------------------------------------------------
(* core/orchestrator.py *)

\* FileAnalysisResult(file_path, language); file_path is the position of the
\* source file in `files`
FileAnalysisResult(file_path, language) ==
    [file_path |-> file_path, language |-> language, elements |-> <<>>,
     issues |-> <<>>, coverage_score |-> Frac(0, 1),
     total_elements |-> 0, documented_elements |-> 0]

ProjectAnalysisResult ==
    [files |-> <<>>, overall_coverage |-> Frac(0, 1), total_elements |-> 0,
     documented_elements |-> 0, issues_by_severity |-> <<>>,
     coverage_by_language |-> <<>>]

\* _analyze_file: parse, check, evaluate; parse_file swallows a parse error
\* and hands back no elements, and the FileAnalysisResult is built all the same
\* Optional[FileAnalysisResult]: <<file_result>>, or <<>> for None when the
\* except clause is taken
_analyze_file(cfg, order, file_path, file) ==
    IF file.raises THEN <<>>
    ELSE <<evaluate_file(cfg, order,
              check_file(cfg, [FileAnalysisResult(file_path, "python")
                               EXCEPT !.elements = parse_file(file)]))>>

FracAdd(x, y) == Frac(x.num * y.den + y.num * x.den, x.den * y.den)
FracEq(x, y) == x.num * y.den = y.num * x.den

RECURSIVE FracSum(_)
FracSum(s) == IF s = <<>> THEN Frac(0, 1) ELSE FracAdd(Head(s), FracSum(Tail(s)))

\* issues_by_severity[sev] = issues_by_severity.get(sev, 0) + 1, issue by issue
RECURSIVE CountSeverities(_, _)
CountSeverities(hist, issues) ==
    IF issues = <<>> THEN hist
    ELSE CountSeverities(
            [s \in DOMAIN hist \cup {Head(issues).severity} |->
                (IF s \in DOMAIN hist THEN hist[s] ELSE 0)
                + (IF s = Head(issues).severity THEN 1 ELSE 0)],
            Tail(issues))

\* variant: a language's coverage is the ratio of its summed counts
_calculate_project_metrics_ratio(pr) ==
    LET n == Len(pr.files)
        total_elements == SeqSum([i \in 1..n |-> pr.files[i].total_elements])
        documented_elements == SeqSum([i \in 1..n |-> pr.files[i].documented_elements])
        languages == {pr.files[i].language : i \in 1..n}
    IN  [pr EXCEPT
            !.total_elements = total_elements,
            !.documented_elements = documented_elements,
            !.overall_coverage = IF total_elements > 0
                                 THEN Frac(documented_elements, total_elements)
                                 ELSE Frac(1, 1),
            !.coverage_by_language =
                [lang \in languages |->
                    IF total_elements > 0
                    THEN Frac(documented_elements, total_elements)
                    ELSE Frac(1, 1)],
            !.issues_by_severity =
                CountSeverities(<<>>, Concat([i \in 1..n |-> pr.files[i].issues]))]

_calculate_project_metrics(pr) ==
    LET n == Len(pr.files)
        total_elements == SeqSum([i \in 1..n |-> pr.files[i].total_elements])
        documented_elements == SeqSum([i \in 1..n |-> pr.files[i].documented_elements])
        languages == {pr.files[i].language : i \in 1..n}
        scores(lang) == LET fs == SelectSeq(pr.files, LAMBDA f : f.language = lang)
                        IN  [i \in 1..Len(fs) |-> fs[i].coverage_score]
    IN  [pr EXCEPT
            !.total_elements = total_elements,
            !.documented_elements = documented_elements,
            !.overall_coverage = IF total_elements > 0
                                 THEN Frac(documented_elements, total_elements)
                                 ELSE Frac(1, 1),
            !.coverage_by_language =
                [lang \in languages |->
                    Frac(FracSum(scores(lang)).num,
                         FracSum(scores(lang)).den * Len(scores(lang)))],
            !.issues_by_severity =
                CountSeverities(<<>>, Concat([i \in 1..n |-> pr.files[i].issues]))]

\* the first loop of evaluate_project, run to its end
RECURSIVE CollectAll(_, _)
CollectAll(terminology, file_results) ==
    IF file_results = <<>> THEN terminology
    ELSE CollectAll(_collect_terminology(terminology, Head(file_results)),
                    Tail(file_results))

\* evaluate_project as one step, from the given content of project_terminology
evaluate_project(cfg, order, terminology, pr) ==
    IF ~cfg.evaluate_consistency THEN pr
    ELSE [pr EXCEPT !.files = [i \in 1..Len(pr.files) |->
            [pr.files[i] EXCEPT !.issues =
                @ \o _check_cross_file_consistency(
                        order, CollectAll(terminology, pr.files), pr.files[i])]]]

\* analyze_project as one step, on a fresh orchestrator
analyze_project(cfg, order, fs) ==
    evaluate_project(cfg, order.terms, <<>>,
        _calculate_project_metrics([ProjectAnalysisResult EXCEPT !.files =
            Concat([i \in 1..Len(fs) |-> _analyze_file(cfg, order.strs, i, fs[i])])]))

-----------------------------------------------------------------------------
(* Inputs: a catalogue of source files, configurations, iteration orders    *)

UserId == <<"U", "s", "e", "r", "I", "d">>
Userid == <<"U", "s", "e", "r", "i", "d">>
userid == <<"u", "s", "e", "r", "i", "d">>
UserID == <<"U", "s", "e", "r", "I", "D">>

\* """Sum.\n\nArgs:\n    a: x\n    b: y\n\nReturns:\n    int: x"""
D_full ==
    Doc(<<L_text(<<>>), L_blank, L_hdr("Args"), L_entry("a", "x"), L_entry("b", "x"),
          L_blank, L_hdr("Returns"), L_entry("int", "x")>>, <<>>, FALSE)
\* the same without the line for b
D_onlyA ==
    Doc(<<L_text(<<>>), L_blank, L_hdr("Args"), L_entry("a", "x"),
          L_blank, L_hdr("Returns"), L_entry("int", "x")>>, <<>>, FALSE)
\* """Sum.\n\nArgs:\n    a: x"""
D_single == Doc(<<L_text(<<>>), L_blank, L_hdr("Args"), L_entry("a", "x")>>, <<>>, FALSE)
\* """Sum.\n:param a: x\n:param b: y"""
D_sphinx == Doc(<<L_text(<<>>), L_sphinx("a", "x"), L_sphinx("b", "x")>>, <<>>, FALSE)
\* one line of prose using the given words
D_plain(ts) == Doc(<<L_text(ts)>>, <<>>, FALSE)
\* hard to read, vague, and with a `currently`
D_poor == Doc(<<L_text(<<>>)>>, <<"readability_poor", "vague_language">>, TRUE)
\* prose with five stylistic findings
D_wordy ==
    Doc(<<L_text(<<>>)>>, <<"readability_difficult", "vague_language",
                            "sentence_too_long", "passive_voice">>, TRUE)

N(stem) == <<stem>>
Dunder(stem) == <<"_", "_", stem, "_", "_">>

F_math ==
    SourceFile(N("math"), TRUE, D_plain(<<UserId>>),
        <<Def(N("add"), <<"a", "b">>, TRUE, D_full, <<>>),
          Def(N("sub"), <<"a", "b">>, TRUE, D_onlyA, <<>>)>>)

F_vis ==
    SourceFile(Dunder("init"), TRUE, NoDoc,
        <<Def(<<"_", "_", "hidden">>, <<>>, FALSE, NoDoc, <<>>),
          Class(N("Pub"), D_plain(<<>>),
                <<Def(Dunder("init"), <<"self", "a">>, FALSE, D_single, <<>>),
                  Def(<<"_", "helper">>, <<"self", "a">>, FALSE, NoDoc, <<>>)>>),
          Class(<<"_", "_", "Priv">>, NoDoc, <<>>),
          Class(<<"_", "Prot">>, NoDoc, <<>>)>>)

F_special ==
    SourceFile(N("special"), TRUE, D_plain(<<>>),
        <<Class(Dunder("call"), NoDoc, <<>>),
          Class(Dunder("version"), NoDoc, <<>>),
          Class(<<"_", "_", "Priv">>, NoDoc, <<>>),
          Class(<<"_", "_", "Kept">>, D_plain(<<>>), <<>>),
          Def(N("main"), <<"a">>, TRUE, D_single, <<>>)>>)

F_bad == SourceFile(N("broken"), FALSE, NoDoc, <<>>)

F_terms ==
    SourceFile(N("terms"), TRUE, D_plain(<<Userid, userid>>),
        <<Def(N("load"), <<>>, FALSE, D_plain(<<UserId, UserID>>), <<>>),
          Def(N("save"), <<"a", "b">>, FALSE, D_sphinx, <<>>),
          Def(N("one"), <<"a">>, FALSE, D_single, <<>>)>>)

F_poor ==
    SourceFile(N("poor"), TRUE, D_poor,
        <<Class(N("Wordy"), D_wordy, <<>>),
          Def(N("run"), <<"a", "b">>, TRUE, D_plain(<<UserId>>), <<>>)>>)

\* a file on which the analysis raises after parsing
F_raise ==
    [SourceFile(N("huge"), TRUE, NoDoc, <<Def(N("run"), <<>>, FALSE, NoDoc, <<>>)>>)
     EXCEPT !.raises = TRUE]

\* two clean docstrings that spell one term in two ways
F_gloss ==
    SourceFile(N("gloss"), TRUE, D_plain(<<UserId>>),
        <<Class(N("Account"), D_plain(<<Userid>>), <<>>)>>)

FileCatalogue == {F_math, F_vis, F_special, F_bad, F_terms, F_poor, F_raise, F_gloss}

DefaultConfig ==
    [check_presence |-> TRUE, check_format |-> TRUE, check_completeness |-> TRUE,
     evaluate_clarity |-> TRUE, evaluate_consistency |-> TRUE, check_sync |-> TRUE,
     style |-> "google"]

Toggles == {"check_presence", "check_format", "check_completeness",
            "evaluate_clarity", "evaluate_consistency", "check_sync"}

Configs ==
    {DefaultConfig}
    \cup {[DefaultConfig EXCEPT ![t] = FALSE] : t \in Toggles}
    \cup {[DefaultConfig EXCEPT !.style = st] : st \in {"numpy", "sphinx", "javadoc", "jsdoc"}}

\* iteration order of str sets (hash order of the process): one order of the
\* strings that occur in sets, or its reverse
Reverse(s) == [i \in 1..Len(s) |-> s[Len(s) + 1 - i]]
StrUniverse == <<"a", "b", "ab", "int", "Args", "Returns", "Raises",
                 "google", "numpy", "sphinx", "javadoc", "jsdoc">>
TermUniverse == <<UserId, Userid, userid, UserID>>
HashOrders == {[strs |-> StrUniverse, terms |-> TermUniverse],
               [strs |-> Reverse(StrUniverse), terms |-> Reverse(TermUniverse)]}

-----------------------------------------------------------------------------
(* analyze_project as a state machine *)

Init ==
    /\ config \in Configs
    /\ hashOrder \in HashOrders
    /\ pc = "idle"
    /\ files = <<>>
    /\ idx = 0
    /\ project_result = ProjectAnalysisResult
    /\ project_terminology = <<>>
    /\ probe = <<>>
    /\ answer = <<>>
    /\ exit_code = <<>>

\* analyze_project is called: project_result created, files listed
Start ==
    /\ pc = "idle"
    /\ \E fs \in SeqsUpTo(FileCatalogue, MaxFiles) : Distinct(fs) /\ files' = fs
    /\ project_result' = ProjectAnalysisResult
    /\ idx' = 1
    /\ pc' = "analyze"
    /\ UNCHANGED <<config, hashOrder, project_terminology, probing, exit_code>>

\* variant: a file whose analysis raises ends the loop
AnalyzeFile_abort ==
    /\ pc = "analyze"
    /\ idx <= Len(files)
    /\ project_result' =
          [project_result EXCEPT !.files =
              @ \o _analyze_file(config, hashOrder.strs, idx, files[idx])]
    /\ idx' = IF files[idx].raises THEN Len(files) + 1 ELSE idx + 1
    /\ UNCHANGED <<config, hashOrder, pc, files, project_terminology, probing, exit_code>>

\* one iteration of `for file_path in files`
AnalyzeFile ==
    /\ pc = "analyze"
    /\ idx <= Len(files)
    /\ project_result' =
          [project_result EXCEPT !.files =
              @ \o _analyze_file(config, hashOrder.strs, idx, files[idx])]
    /\ idx' = idx + 1
    /\ UNCHANGED <<config, hashOrder, pc, files, project_terminology, probing, exit_code>>

CalculateProjectMetrics ==
    /\ pc = "analyze"
    /\ idx > Len(files)
    /\ project_result' = _calculate_project_metrics(project_result)
    /\ pc' = "evaluate"
    /\ UNCHANGED <<config, hashOrder, files, idx, project_terminology, probing, exit_code>>

\* evaluate_project is entered
EvaluateProject ==
    /\ pc = "evaluate"
    /\ pc' = IF ~config.evaluate_consistency THEN "return"
             ELSE IF project_result.files = <<>> THEN "return"
             ELSE "collect"
    /\ idx' = 1
    /\ UNCHANGED <<config, hashOrder, files, project_result, project_terminology, probing, exit_code>>

\* a single loop that collects a file's terms and checks the file at once
CollectTerminology_interleaved ==
    /\ pc = "collect"
    /\ project_terminology' =
          _collect_terminology(project_terminology, project_result.files[idx])
    /\ project_result' =
          [project_result EXCEPT !.files[idx].issues =
              @ \o _check_cross_file_consistency(hashOrder.terms, project_terminology',
                                                 project_result.files[idx])]
    /\ IF idx < Len(project_result.files)
       THEN idx' = idx + 1 /\ pc' = pc
       ELSE idx' = idx /\ pc' = "return"
    /\ UNCHANGED <<config, hashOrder, files, probing, exit_code>>

\* one iteration of the first loop of evaluate_project
CollectTerminology ==
    /\ pc = "collect"
    /\ project_terminology' =
          _collect_terminology(project_terminology, project_result.files[idx])
    /\ IF idx < Len(project_result.files)
       THEN idx' = idx + 1 /\ pc' = pc
       ELSE idx' = 1 /\ pc' = "check"
    /\ UNCHANGED <<config, hashOrder, files, project_result, probing, exit_code>>

\* one iteration of the second loop of evaluate_project
CheckCrossFile ==
    /\ pc = "check"
    /\ project_result' =
          [project_result EXCEPT !.files[idx].issues =
              @ \o _check_cross_file_consistency(hashOrder.terms, project_terminology,
                                                 project_result.files[idx])]
    /\ IF idx < Len(project_result.files)
       THEN idx' = idx + 1 /\ pc' = pc
       ELSE idx' = idx /\ pc' = "return"
    /\ UNCHANGED <<config, hashOrder, files, project_terminology, probing, exit_code>>

\* return project_result
Return ==
    /\ pc = "return"
    /\ pc' = "done"
    /\ UNCHANGED <<config, hashOrder, files, idx, project_result, project_terminology, probing, exit_code>>

\* sum(project_result.issues_by_severity.values())
total_issues(pr) ==
    SeqSum([i \in 1..4 |->
        IF <<"critical", "high", "medium", "low">>[i] \in DOMAIN pr.issues_by_severity
        THEN pr.issues_by_severity[<<"critical", "high", "medium", "low">>[i]]
        ELSE 0])

\* the `check` command after analyze_project has returned: sys.exit(1) when
\* total_issues > 0, else the command ends normally (status 0)
Check ==
    /\ pc = "done"
    /\ exit_code' = IF total_issues(project_result) > 0 THEN <<1>> ELSE <<0>>
    /\ pc' = "exited"
    /\ UNCHANGED <<config, hashOrder, files, idx, project_result, project_terminology, probing>>

Next ==
    \/ Start
    \/ AnalyzeFile
    \/ CalculateProjectMetrics
    \/ EvaluateProject
    \/ CollectTerminology
    \/ CheckCrossFile
    \/ Return
    \/ Check

Spec == Init /\ [][Next]_vars

-----------------------------------------------------------------------------
(* Successive analyze_project calls on the orchestrator the server holds.  *)
(* The evaluator and its project_terminology are created once, with the    *)
(* orchestrator; probe keeps the file lists of the earlier calls.          *)

InitServer ==
    /\ config = DefaultConfig
    /\ hashOrder \in HashOrders
    /\ pc = "idle"
    /\ files = <<>>
    /\ idx = 0
    /\ project_result = ProjectAnalysisResult
    /\ project_terminology = <<>>
    /\ probe = <<>>
    /\ answer = <<>>
    /\ exit_code = <<>>

\* the tool is called again after a call has returned
AnalyzeAgain ==
    /\ pc = "done"
    /\ Len(probe) + 1 < MaxRuns
    /\ probe' = Append(probe, files)
    /\ \E fs \in SeqsUpTo(FileCatalogue, MaxFiles) : Distinct(fs) /\ files' = fs
    /\ project_result' = ProjectAnalysisResult
    /\ idx' = 1
    /\ pc' = "analyze"
    /\ UNCHANGED <<config, hashOrder, project_terminology, answer, exit_code>>

NextServer ==
    \/ Start
    \/ AnalyzeFile
    \/ CalculateProjectMetrics
    \/ EvaluateProject
    \/ CollectTerminology
    \/ CheckCrossFile
    \/ Return
    \/ AnalyzeAgain

SpecServer == InitServer /\ [][NextServer]_vars

-----------------------------------------------------------------------------
(* _determine_status applied to given severity counts *)

InitStatus ==
    /\ config = DefaultConfig
    /\ hashOrder = [strs |-> StrUniverse, terms |-> TermUniverse]
    /\ pc = "probe"
    /\ files = <<>>
    /\ idx = 0
    /\ project_result = ProjectAnalysisResult
    /\ project_terminology = <<>>
    /\ probe \in [hasdoc : BOOLEAN, critical : 0..MaxIssues, high : 0..MaxIssues,
                  medium : 0..MaxIssues, low : 0..MaxIssues]
    /\ answer = <<>>
    /\ exit_code = <<>>

DetermineStatus ==
    /\ pc = "probe"
    /\ answer' = <<StatusOf(probe.hasdoc, probe.critical, probe.high,
                            probe.medium, probe.low)>>
    /\ pc' = "probed"
    /\ UNCHANGED <<config, hashOrder, files, idx, project_result,
                   project_terminology, probe, exit_code>>

NextStatus == DetermineStatus

SpecStatus == InitStatus /\ [][NextStatus]_vars

-----------------------------------------------------------------------------
(* _analyze_file applied to a file of one declaration *)

U_hdrfirst == Doc(<<L_hdr("Args"), L_entry("a", "x")>>, <<>>, FALSE)
U_raisesfirst == Doc(<<L_hdr("Raises"), L_text(<<>>)>>, <<>>, FALSE)
U_returns == Doc(<<L_text(<<>>), L_hdr("Returns"), L_text(<<>>)>>, <<>>, FALSE)
\* the quotes opened and closed on two lines with nothing between them
U_blank == Doc(<<L_blank, L_blank>>, <<>>, FALSE)
U_tag(kind, n) ==
    Doc(<<L_text(<<>>), [L_sphinx(n, "x") EXCEPT !.k = kind]>>, <<>>, FALSE)

UnitDocs ==
    {D_plain(<<>>), D_full, D_single, U_hdrfirst, U_raisesfirst, U_returns, U_blank}
    \cup {U_tag(kind, n) : kind \in {"sphinx", "javadoc", "jsdoc"}, n \in {"a", "ab"}}

\* one function, at top level or in the body of a class; the module, the
\* class and the function carry the same doc blob
UnitFiles ==
    {SourceFile(N("unit"), TRUE, doc,
                IF inClass THEN <<Class(N("K"), doc, <<Def(name, args, returns, doc, <<>>)>>)>>
                ELSE <<Def(name, args, returns, doc, <<>>)>>) :
        doc \in UnitDocs,
        inClass \in BOOLEAN,
        name \in {N("run"), N("main"), Dunder("init"), Dunder("call")},
        args \in {<<>>, <<"a">>, <<"self">>, <<"self", "a">>, <<"a", "b">>},
        returns \in BOOLEAN}

InitUnit ==
    /\ config \in Configs
    /\ hashOrder = [strs |-> StrUniverse, terms |-> TermUniverse]
    /\ pc = "unit"
    /\ files \in {<<f>> : f \in UnitFiles}
    /\ idx = 1
    /\ project_result = ProjectAnalysisResult
    /\ project_terminology = <<>>
    /\ probe = <<>>
    /\ answer = <<>>
    /\ exit_code = <<>>

AnalyzeUnit ==
    /\ pc = "unit"
    /\ project_result' =
          [project_result EXCEPT
              !.files = _analyze_file(config, hashOrder.strs, idx, files[idx])]
    /\ pc' = "analysed"
    /\ UNCHANGED <<config, hashOrder, files, idx, project_terminology, probing, exit_code>>

NextUnit == AnalyzeUnit

SpecUnit == InitUnit /\ [][NextUnit]_vars

-----------------------------------------------------------------------------
(* BaseParser._clean_docstring on raw text: a string is its characters *)

DocChars == {"a", " ", "\n"}
IsSpace(c) == c \in {" ", "\n"}

\* str.lstrip(), str.rstrip(), str.strip()
RECURSIVE str_lstrip(_)
str_lstrip(s) ==
    IF s # <<>> /\ IsSpace(Head(s)) THEN str_lstrip(Tail(s)) ELSE s
RECURSIVE str_rstrip(_)
str_rstrip(s) ==
    IF s # <<>> /\ IsSpace(s[Len(s)]) THEN str_rstrip(SubSeq(s, 1, Len(s) - 1)) ELSE s
str_strip(s) == str_rstrip(str_lstrip(s))

\* str.split('\n'): at least one line, none of them holds a newline
RECURSIVE SplitFrom(_, _)
SplitFrom(s, line) ==
    IF s = <<>> THEN <<line>>
    ELSE IF Head(s) = "\n" THEN <<line>> \o SplitFrom(Tail(s), <<>>)
    ELSE SplitFrom(Tail(s), Append(line, Head(s)))
str_split(s) == SplitFrom(s, <<>>)

\* '\n'.join(lines)
RECURSIVE str_join(_)
str_join(lines) ==
    IF lines = <<>> THEN <<>>
    ELSE IF Len(lines) = 1 THEN lines[1]
    ELSE lines[1] \o <<"\n">> \o str_join(Tail(lines))

\* len(line) - len(line.lstrip())
Indent(line) == Len(line) - Len(str_lstrip(line))

\* the indents of the non-blank lines after the first
Indents(lines) ==
    {Indent(lines[i]) : i \in {j \in 2..Len(lines) : str_strip(lines[j]) # <<>>}}

\* [lines[0]] + [line[n:] if len(line) > n else line for line in lines[1:]]
Dedent(lines, n) ==
    [i \in 1..Len(lines) |->
        IF i > 1 /\ Len(lines[i]) > n
        THEN SubSeq(lines[i], n + 1, Len(lines[i]))
        ELSE lines[i]]

\* a dedent that takes one column off per call
_clean_docstring_onecol(docstring) ==
    LET clean(s, lines) ==
            IF Len(lines) > 1 /\ Indents(lines) # {} /\ Least(Indents(lines)) > 0
            THEN str_join(Dedent(lines, 1))
            ELSE s
    IN  IF docstring = <<>> THEN <<>>
        ELSE clean(str_strip(docstring), str_split(str_strip(docstring)))

_clean_docstring(docstring) ==
    LET clean(s, lines) ==
            IF Len(lines) > 1 /\ Indents(lines) # {}
            THEN str_join(Dedent(lines, Least(Indents(lines))))
            ELSE s
    IN  IF docstring = <<>> THEN <<>>
        ELSE clean(str_strip(docstring), str_split(str_strip(docstring)))

\* a raw blob is cleaned, and the result is cleaned once more
InitClean ==
    /\ config = DefaultConfig
    /\ hashOrder = [strs |-> StrUniverse, terms |-> TermUniverse]
    /\ pc = "raw"
    /\ files = <<>>
    /\ idx = 0
    /\ project_result = ProjectAnalysisResult
    /\ project_terminology = <<>>
    /\ probe \in SeqsUpTo(DocChars, MaxDocLen)
    /\ answer = <<>>
    /\ exit_code = <<>>

CleanDocstring ==
    /\ pc \in {"raw", "cleaned"}
    /\ answer' = IF pc = "raw" THEN <<_clean_docstring(probe)>>
                 ELSE Append(answer, _clean_docstring(answer[1]))
    /\ pc' = IF pc = "raw" THEN "cleaned" ELSE "recleaned"
    /\ UNCHANGED <<config, hashOrder, files, idx, project_result,
                   project_terminology, probe, exit_code>>

NextClean == CleanDocstring

SpecClean == InitClean /\ [][NextClean]_vars

-----------------------------------------------------------------------------
(* _parse_docstring_sections applied to a given doc blob *)

DocLines == {L_text(<<>>), L_blank, L_hdr("Args"), L_hdr("Returns"), L_entry("a", "x")}

InitSections ==
    /\ config = DefaultConfig
    /\ hashOrder = [strs |-> StrUniverse, terms |-> TermUniverse]
    /\ pc = "blob"
    /\ files = <<>>
    /\ idx = 0
    /\ project_result = ProjectAnalysisResult
    /\ project_terminology = <<>>
    /\ probe \in {Doc(ls, <<>>, FALSE) : ls \in SeqsUpTo(DocLines, MaxDocLines) \ {<<>>}}
    /\ answer = <<>>
    /\ exit_code = <<>>

ParseSections ==
    /\ pc = "blob"
    /\ answer' = <<_parse_docstring_sections(probe)>>
    /\ pc' = "split"
    /\ UNCHANGED <<config, hashOrder, files, idx, project_result,
                   project_terminology, probe, exit_code>>

NextSections == ParseSections

SpecSections == InitSections /\ [][NextSections]_vars

-----------------------------------------------------------------------------
(* Properties *)

Results == project_result.files
FileIds == 1..Len(Results)
ElementIds(f) == 1..Len(Results[f].elements)
ElementAt(f, i) == Results[f].elements[i]

\* the issues of file f that point to element i and have one of the types
IssuesFor(f, i, types) ==
    {k \in 1..Len(Results[f].issues) :
        /\ Results[f].issues[k].element = i
        /\ Results[f].issues[k].issue_type \in types}

SpecialAllowList ==
    {Dunder("init"), Dunder("str"), Dunder("repr"), Dunder("call"),
     Dunder("enter"), Dunder("exit"), Dunder("iter"), Dunder("next")}

\* the presence policy as the specification words it
ShouldDocument(e) ==
    \/ e.visibility \in {"public", "protected"}
    \/ e.visibility = "special" /\ e.name \in SpecialAllowList

DeclaredParams(e) == Range(e.parameters) \ {"self", "cls"}

\* every declared parameter has a `name: description` line with a
\* description, inside the one Args: section of the blob
FullyDocumentedGoogle(e) ==
    LET ls == e.docstring.lines
        hdrs == {i \in 1..Len(ls) : ls[i].k = "hdr" /\ ls[i].name = "Args"}
    IN  /\ IsCallable(e)
        /\ DeclaredParams(e) # {}
        /\ Cardinality(hdrs) = 1
        /\ \A p \in DeclaredParams(e) :
              \E h \in hdrs : \E j \in (h + 1)..Len(ls) :
                 /\ ls[j].k = "entry" /\ ls[j].name = p /\ ls[j].desc # ""
                 /\ \A m \in (h + 1)..j : ls[m].k \in {"entry", "blank"}

\* C1: a function whose every parameter has its own described line in one
\* Google-style Args: section gets no missing_parameter_doc issue from the
\* checker and no sync_missing_param / sync_extra_param issue from the
\* evaluator.
C1_FullyDocumentedNoParamIssues ==
    \A f \in FileIds : \A i \in ElementIds(f) :
        FullyDocumentedGoogle(ElementAt(f, i)) =>
            IssuesFor(f, i, {"missing_parameter_doc", "sync_missing_param",
                             "sync_extra_param"}) = {}

HistogramCount(sev) ==
    IF sev \in DOMAIN project_result.issues_by_severity
    THEN project_result.issues_by_severity[sev] ELSE 0

IssuesOfSeverity(sev) ==
    SeqSum([f \in FileIds |->
              Cardinality({k \in 1..Len(Results[f].issues) :
                              Results[f].issues[k].severity = sev})])

\* C2: in the ProjectResult that analyze_project returns, issuesBySeverity[s]
\* is, for every severity s, the number of issues of severity s in the issue
\* lists of all files, those of the project-level consistency pass included.
C2_HistogramCoversAllIssues ==
    pc = "done" => \A sev \in Severities : HistogramCount(sev) = IssuesOfSeverity(sev)

\* C3: no missing_documentation issue is raised for a private element; the
\* checker asks documentation of an element iff it is public or protected,
\* or special with a name in the allow-list, and only such an element gets
\* a missing_documentation issue.
C3_PrivateNeverMissing ==
    \A f \in FileIds : \A i \in ElementIds(f) :
        /\ ElementAt(f, i).visibility = "private"
              => IssuesFor(f, i, {"missing_documentation"}) = {}
        /\ IssuesFor(f, i, {"missing_documentation"}) # {}
              => ShouldDocument(ElementAt(f, i))
        /\ _should_have_documentation(ElementAt(f, i)) <=> ShouldDocument(ElementAt(f, i))

\* an undocumented private element was checked in a file where the presence
\* check did raise an issue for another element
C3_Witness ==
    /\ config.check_presence
    /\ \E f \in FileIds : \E i, j \in ElementIds(f) :
          /\ ElementAt(f, i).visibility = "private"
          /\ ~HasDoc(ElementAt(f, i).docstring)
          /\ ElementAt(f, j).visibility = "special"
          /\ IssuesFor(f, j, {"missing_documentation"}) # {}

\* the methods held by the class elements of file f
MethodsOf(f) ==
    UNION {Range(ElementAt(f, i).methods) : i \in ElementIds(f)}

\* C4: every declaration the extractor emits, function or method or class,
\* carries the visibility its name gives it (dunder: special, leading double
\* underscore: private, leading underscore: protected, else public).
C4_VisibilityFromName ==
    \A f \in FileIds :
        \A e \in {ElementAt(f, i) : i \in {j \in ElementIds(f) :
                                            ElementAt(f, j).element_type # T_MODULE}}
                 \cup MethodsOf(f) :
            e.visibility = _get_visibility(e.name)

\* C5: with the presence check on, an element that should be documented and
\* has no doc blob gets exactly one missing_documentation issue, high if it
\* is public and medium otherwise, and its status is Missing.
C5_MissingDocOneIssue ==
    \A f \in FileIds : \A i \in ElementIds(f) :
        (/\ config.check_presence
         /\ ShouldDocument(ElementAt(f, i))
         /\ ~HasDoc(ElementAt(f, i).docstring))
        => /\ Cardinality(IssuesFor(f, i, {"missing_documentation"})) = 1
           /\ \A k \in IssuesFor(f, i, {"missing_documentation"}) :
                 Results[f].issues[k].severity =
                    IF ElementAt(f, i).visibility = "public" THEN "high" ELSE "medium"
           /\ ElementAt(f, i).status = MISSING

\* an undocumented element that is not public got its medium issue, next to
\* an undocumented public one
C5_Witness ==
    /\ config.check_presence
    /\ \E f \in FileIds : \E i, j \in ElementIds(f) :
          /\ ElementAt(f, i).visibility = "protected"
          /\ ~HasDoc(ElementAt(f, i).docstring)
          /\ \E k \in IssuesFor(f, i, {"missing_documentation"}) :
                Results[f].issues[k].severity = "medium"
          /\ ElementAt(f, j).visibility = "public"
          /\ \E k \in IssuesFor(f, j, {"missing_documentation"}) :
                Results[f].issues[k].severity = "high"

\* the precedence list of the specification, each case with its full condition
StatusTable(p) ==
    CASE ~p.hasdoc -> MISSING
      [] p.hasdoc /\ (p.critical > 0 \/ p.high > 0) -> INCOMPLETE
      [] p.hasdoc /\ p.critical = 0 /\ p.high = 0 /\ p.medium > 2 -> INCOMPLETE
      [] p.hasdoc /\ p.critical = 0 /\ p.high = 0
            /\ (p.medium \in {1, 2} \/ (p.medium = 0 /\ p.low > 3)) -> OUTDATED
      [] p.hasdoc /\ p.critical = 0 /\ p.high = 0 /\ p.medium = 0
            /\ p.low \in 1..3 -> GOOD
      [] p.hasdoc /\ p.critical = 0 /\ p.high = 0 /\ p.medium = 0
            /\ p.low = 0 -> EXCELLENT

\* C6: status derivation, first match wins: no doc blob -> Missing; any
\* critical or high -> Incomplete; more than two medium -> Incomplete; one or
\* two medium, or more than three low -> Outdated; one to three low and no
\* medium -> Good; no issue -> Excellent.
C6_StatusPrecedence ==
    pc = "probed" => answer = <<StatusTable(probe)>>

\* two medium issues and more than three low ones, no high: Outdated
C6_Witness ==
    /\ pc = "probed"
    /\ probe.hasdoc /\ probe.critical = 0 /\ probe.high = 0
    /\ probe.medium = 2 /\ probe.low > 3
    /\ answer = <<OUTDATED>>

ShouldIds(f) == {i \in ElementIds(f) : ShouldDocument(ElementAt(f, i))}
DocumentedIds(f) == {i \in ShouldIds(f) : ElementAt(f, i).status # MISSING}

\* C7: a file's coverage is (should-document elements whose status is not
\* Missing) / (should-document elements), and exactly 1.0 when it has no
\* should-document element; other elements enter neither count.
C7_Coverage ==
    \A f \in FileIds :
        /\ Results[f].total_elements = Cardinality(ShouldIds(f))
        /\ Results[f].documented_elements = Cardinality(DocumentedIds(f))
        /\ IF ShouldIds(f) = {}
           THEN Results[f].coverage_score = Frac(1, 1)
           ELSE FracEq(Results[f].coverage_score,
                       Frac(Cardinality(DocumentedIds(f)), Cardinality(ShouldIds(f))))

\* a file without any should-document element next to a file that has
\* documented, undocumented and not-should-document elements
C7_Witness ==
    \E f, g \in FileIds :
        /\ ShouldIds(f) = {}
        /\ Results[f].coverage_score = Frac(1, 1)
        /\ ShouldIds(g) # ElementIds(g)
        /\ DocumentedIds(g) # {}
        /\ DocumentedIds(g) # ShouldIds(g)

\* the blob has one Args: section and its only `name: description` line
\* below it is the one of parameter p
DocumentsOnly(e, p) ==
    LET ls == e.docstring.lines
        hdrs == {i \in 1..Len(ls) : ls[i].k = "hdr" /\ ls[i].name = "Args"}
        params == {i \in 1..Len(ls) :
                     /\ ls[i].k \in {"entry", "sphinx", "javadoc", "jsdoc"}
                     /\ ls[i].name \in Range(e.parameters)}
    IN  /\ Cardinality(hdrs) = 1
        /\ Cardinality(params) = 1
        /\ \A i \in params : \A h \in hdrs :
              /\ ls[i].k = "entry" /\ ls[i].name = p /\ ls[i].desc # ""
              /\ i = h + 1

IssuesNaming(f, i, types, p) ==
    {k \in IssuesFor(f, i, types) : Results[f].issues[k].message.a = <<p>>}

AllIssueTypes ==
    UNION {{Results[f].issues[k].issue_type : k \in 1..Len(Results[f].issues)} :
              f \in FileIds}

\* C8: for a function with parameters {a, b} whose Google-style blob documents
\* only a, the engine (google style, completeness and sync checks on) emits
\* exactly one missing_parameter_doc issue and exactly one sync_missing_param
\* issue, both medium and both for b, and no issue naming a.
C8_OnlyADocumented ==
    \A f \in FileIds : \A i \in ElementIds(f) :
        (/\ config.style = "google" /\ config.check_completeness /\ config.check_sync
         /\ IsCallable(ElementAt(f, i))
         /\ Range(ElementAt(f, i).parameters) = {"a", "b"}
         /\ DocumentsOnly(ElementAt(f, i), "a"))
        => /\ \A t \in {"missing_parameter_doc", "sync_missing_param"} :
                /\ Cardinality(IssuesFor(f, i, {t})) = 1
                /\ IssuesNaming(f, i, {t}, "b") = IssuesFor(f, i, {t})
                /\ \A k \in IssuesFor(f, i, {t}) : Results[f].issues[k].severity = "medium"
           /\ IssuesNaming(f, i, AllIssueTypes, "a") = {}

\* such a function went through the checker and the evaluator
C8_Witness ==
    /\ config.style = "google" /\ config.check_completeness /\ config.check_sync
    /\ \E f \in FileIds : \E i \in ElementIds(f) :
          /\ IsCallable(ElementAt(f, i))
          /\ Range(ElementAt(f, i).parameters) = {"a", "b"}
          /\ DocumentsOnly(ElementAt(f, i), "a")
          /\ IssuesNaming(f, i, {"missing_parameter_doc"}, "b") # {}
          /\ IssuesNaming(f, i, {"sync_missing_param"}, "b") # {}

\* every word of every doc blob of the analysed files
AllDocWords ==
    Concat([f \in FileIds |->
        Concat([i \in ElementIds(f) |-> DocWords(ElementAt(f, i).docstring)])])

Occurrences(w) == Cardinality({k \in 1..Len(AllDocWords) : AllDocWords[k] = w})

\* v is the capitalization of its term observed most often
IsMajority(v, variations) ==
    \A u \in variations \ {v} : Occurrences(u) < Occurrences(v)

\* C9: after the consistency pass, for a term with more than one observed
\* capitalization, every element whose blob contains a non-majority variant
\* has a low terminology_inconsistency issue naming the majority form, and
\* the majority variant is never flagged.
C9_MajorityNeverFlagged ==
    (pc = "done" /\ config.evaluate_consistency) =>
        \A t \in Range(project_terminology) : \A maj \in t.variations :
            (Cardinality(t.variations) > 1 /\ IsMajority(maj, t.variations)) =>
                \A f \in FileIds : \A i \in ElementIds(f) :
                    /\ \A v \in t.variations \ {maj} :
                          v \in Range(DocWords(ElementAt(f, i).docstring)) =>
                             \E k \in IssuesFor(f, i, {"terminology_inconsistency"}) :
                                /\ Results[f].issues[k].severity = "low"
                                /\ Results[f].issues[k].message.a = v
                                /\ Results[f].issues[k].message.b = maj
                    /\ \A k \in IssuesFor(f, i, {"terminology_inconsistency"}) :
                          Results[f].issues[k].message.a # maj

\* C10: a file whose source fails to parse contributes no FileResult: every
\* FileResult in `files` belongs to a source file that was parsed.
C10_FailedFileAbsent ==
    \A f \in FileIds : files[Results[f].file_path].ok

\* the file analyses without a failure: it parses and nothing is raised
Analyzable(file) == file.ok /\ ~file.raises

\* what a FileResult holds besides the identity of its file
Content(file_result) ==
    [elements |-> file_result.elements, issues |-> file_result.issues,
     coverage_score |-> file_result.coverage_score,
     total_elements |-> file_result.total_elements,
     documented_elements |-> file_result.documented_elements]

\* every file that analyses without failure has exactly one FileResult, whose
\* content is what the run over those files alone gives it
GoodFilesUnaffected ==
    LET alone == analyze_project(config, hashOrder, SelectSeq(files, Analyzable)).files
    IN  \A k \in 1..Len(files) : Analyzable(files[k]) =>
            /\ Cardinality({f \in FileIds : Results[f].file_path = k}) = 1
            /\ \A f \in FileIds : Results[f].file_path = k =>
                  Content(Results[f]) =
                    Content(alone[Cardinality({j \in 1..k : Analyzable(files[j])})])

\* C11: a failure while analysing one file (its source does not parse, or an
\* exception escapes checking or evaluation) does not stop the run: the loop
\* goes on to the files after it, and in the returned ProjectResult every
\* file that analyses without failure has exactly one FileResult, unaffected
\* by the files that failed.
C11_FailureIsolated ==
    /\ pc \in {"evaluate", "collect", "check", "return", "done"} =>
          \A k \in 1..Len(files) : Analyzable(files[k]) =>
              \E f \in FileIds : Results[f].file_path = k
    /\ (pc = "done" /\ \E k \in 1..Len(files) : ~Analyzable(files[k])) =>
          GoodFilesUnaffected

\* a run has returned in which a file failed before a file that did not
C11_Witness ==
    /\ pc = "done"
    /\ \E j, k \in 1..Len(files) :
          /\ j < k /\ files[j].raises /\ Analyzable(files[k])
          /\ \E f \in FileIds : Results[f].file_path = k /\ Results[f].elements # <<>>

\* C12: in check-only mode the run reports success exactly when the returned
\* ProjectResult has no issue in any of its files, and reports failure as soon
\* as one file's issue list holds an issue.
C12_CheckExitStatus ==
    pc = "exited" =>
        /\ exit_code = <<0>> <=> \A f \in FileIds : Results[f].issues = <<>>
        /\ (\E f \in FileIds : Results[f].issues # <<>>) => exit_code = <<1>>

\* C13: analysing an unchanged tree again yields the same ProjectResult: the
\* result is the same under every iteration order of the sets and maps the
\* analysis walks (a second run may meet any of them).
C13_OrderIndependent ==
    pc = "done" =>
        \A order \in HashOrders : analyze_project(config, order, files) = project_result

\* the declaration nodes of the file behind file result f, in the order the
\* extractor emits their elements (element i + 1 comes from node i)
NodesOf(f) ==
    IF Results[f].elements = <<>> THEN <<>>
    ELSE ast_walk(files[Results[f].file_path].body)

\* C14: the parameters of every function or method element are the declared
\* parameters of its definition in declaration order, without the receiver
\* (`self` or `cls`), which never appears among them.
C14_ParametersWithoutReceiver ==
    \A f \in FileIds :
        \A i \in 1..Len(NodesOf(f)) :
            NodesOf(f)[i].kind = "def" =>
                /\ ElementAt(f, i + 1).parameters =
                       SelectSeq(NodesOf(f)[i].args, LAMBDA a : a \notin {"self", "cls"})
                /\ Range(ElementAt(f, i + 1).parameters) \cap {"self", "cls"} = {}

\* the kind of the node that encloses each node ast_walk visits ("module" for
\* a top-level declaration), in the order of ast_walk
RECURSIVE parent_walk(_)
parent_walk(queue) ==
    IF queue = <<>> THEN <<>>
    ELSE <<Head(queue).parent>> \o
         parent_walk(Tail(queue) \o
                     [k \in 1..Len(Head(queue).node.body) |->
                         [node |-> Head(queue).node.body[k],
                          parent |-> Head(queue).node.kind]])

ParentsOf(f) ==
    IF Results[f].elements = <<>> THEN <<>>
    ELSE parent_walk([k \in 1..Len(files[Results[f].file_path].body) |->
                         [node |-> files[Results[f].file_path].body[k],
                          parent |-> "module"]])

\* C15: a function declared directly in a class body is extracted with kind
\* Method, in the element list and in its class's methods alike; a function
\* that is not inside a class body is extracted with kind Function.
C15_MethodKind ==
    \A f \in FileIds :
        /\ \A i \in 1..Len(NodesOf(f)) :
              NodesOf(f)[i].kind = "def" =>
                  ElementAt(f, i + 1).element_type =
                      IF ParentsOf(f)[i] = "class" THEN T_METHOD ELSE T_FUNCTION
        /\ \A e \in MethodsOf(f) : e.element_type = T_METHOD

\* the positions in the element list of the nodes of one kind whose
\* enclosing node has kind `parent`
Declared(f, kind, parent) ==
    {i + 1 : i \in {j \in 1..Len(NodesOf(f)) :
                       NodesOf(f)[j].kind = kind /\ ParentsOf(f)[j] = parent}}

\* C16: the elements of a file form a strict ownership tree: the module owns
\* exactly the top-level classes and functions, each class owns exactly the
\* functions of its own body, and no declaration has two owners.
C16_OwnershipTree ==
    \A f \in FileIds : Results[f].elements # <<>> =>
        /\ Range(ElementAt(f, 1).functions) = Declared(f, "def", "module")
        /\ Range(ElementAt(f, 1).classes) = Declared(f, "class", "module")
        /\ \A i \in 1..Len(NodesOf(f)) :
              NodesOf(f)[i].kind = "class" =>
                  ElementAt(f, i + 1).methods =
                      [k \in 1..Len(SelectSeq(NodesOf(f)[i].body,
                                              LAMBDA n : n.kind = "def")) |->
                          _parse_function(SelectSeq(NodesOf(f)[i].body,
                                                    LAMBDA n : n.kind = "def")[k])]
        /\ \A i \in Declared(f, "def", "class") :
              i \notin Range(ElementAt(f, 1).functions)

\* C17: dedenting is idempotent: cleaning an already cleaned doc blob returns
\* it unchanged, also when the blob has blank or whitespace-only interior
\* lines or lines shorter than the common indentation.
C17_CleanIdempotent ==
    pc = "recleaned" => answer[2] = answer[1]

\* "a", a whitespace-only line shorter than the indentation, "  a"
C17_Witness ==
    /\ pc = "recleaned"
    /\ probe = <<"a", "\n", " ", "\n", " ", " ", "a">>
    /\ answer[1] = <<"a", "\n", " ", "\n", "a">>
    /\ answer[2] = answer[1]

\* the text of section `name` in the returned dict, nothing when absent
SectionText(sections, name) ==
    IF name \in DOMAIN sections THEN sections[name] ELSE <<>>

\* the returned sections laid out in the order of the input, each header
\* line of the input followed by the text of the section it names
RECURSIVE Reassemble(_, _)
Reassemble(lines, sections) ==
    IF lines = <<>> THEN <<>>
    ELSE IF section_patterns(Head(lines)) # "none"
    THEN <<Head(lines)>> \o SectionText(sections, section_patterns(Head(lines)))
         \o Reassemble(Tail(lines), sections)
    ELSE Reassemble(Tail(lines), sections)

\* C18: splitting a doc blob into sections is a partition of its lines: the
\* sections hold as many lines as the blob has non-header lines, and the
\* sections in order with the header lines put back are the blob, line for
\* line, also with a repeated header or blank lines in a section.
C18_SectionsPartition ==
    pc = "split" =>
        /\ SeqSum([i \in 1..Len(<<"summary", "args", "returns", "raises">>) |->
                     Len(SectionText(answer[1],
                                     <<"summary", "args", "returns", "raises">>[i]))])
           = Len(SelectSeq(probe.lines, LAMBDA l : section_patterns(l) = "none"))
        /\ SectionText(answer[1], "summary") \o Reassemble(probe.lines, answer[1])
           = probe.lines

\* the terminology issues recorded so far, as (file, position) pairs
TerminologyIssues ==
    UNION {{<<f, k>> : k \in {j \in 1..Len(Results[f].issues) :
                Results[f].issues[j].issue_type = "terminology_inconsistency"}} :
           f \in FileIds}

\* C19: the terminology pass is a barrier between two ordered traversals:
\* terms are collected only once every file has been analysed and has its
\* FileResult, and a terminology_inconsistency issue exists only once the
\* terms of every FileResult have been collected.
C19_TerminologyBarrier ==
    /\ (pc = "collect" \/ project_terminology # <<>>) =>
          \A k \in 1..Len(files) : ~files[k].raises =>
              \E f \in FileIds : Results[f].file_path = k
    /\ TerminologyIssues # {} =>
          /\ pc \in {"check", "return", "done", "exited"}
          /\ project_terminology = CollectAll(<<>>, Results)

\* the first of two files has its terminology issue, the second is still to
\* be checked, and terms of the second file are in the table
C19_Witness ==
    /\ pc = "check" /\ idx = 2 /\ Len(Results) = 2
    /\ \E k \in 1..Len(Results[1].issues) : <<1, k>> \in TerminologyIssues
    /\ project_terminology # _collect_terminology(<<>>, Results[1])

\* C20: an element without a doc blob gets at most a missing_documentation
\* issue: no format, completeness, clarity, sync, file-level style or
\* terminology issue points to it, whatever the toggles are.
C20_UndocumentedOnlyMissing ==
    \A f \in FileIds :
        \A i \in ElementIds(f) :
            ~HasDoc(ElementAt(f, i).docstring) =>
                /\ \A k \in 1..Len(Results[f].issues) :
                      Results[f].issues[k].element = i =>
                          Results[f].issues[k].issue_type = "missing_documentation"
                /\ Cardinality(IssuesFor(f, i, {"missing_documentation"})) <= 1
                /\ Len(ElementAt(f, i).issues) <= 1

\* all toggles on: an undocumented element has its missing_documentation
\* issue, and a documented element of the same file has issues of other kinds
C20_Witness ==
    /\ pc = "done"
    /\ \A t \in Toggles : config[t]
    /\ \E f \in FileIds :
          \E i, j \in ElementIds(f) :
              /\ ~HasDoc(ElementAt(f, i).docstring)
              /\ Len(ElementAt(f, i).parameters) > 0
              /\ IssuesFor(f, i, {"missing_documentation"}) # {}
              /\ HasDoc(ElementAt(f, j).docstring)
              /\ IssuesFor(f, j, AllIssueTypes \ {"missing_documentation"}) # {}

\* C21: with the completeness check on, an element of any kind that has a
\* doc blob gets a missing_summary issue exactly when the first line of the
\* blob is empty or is itself a section header.
C21_MissingSummary ==
    config.check_completeness =>
        \A f \in FileIds :
            \A i \in ElementIds(f) :
                HasDoc(ElementAt(f, i).docstring) =>
                    (IssuesFor(f, i, {"missing_summary"}) # {}
                     <=> \/ IsBlank(ElementAt(f, i).docstring.lines[1])
                         \/ ElementAt(f, i).docstring.lines[1].k = "hdr")

\* the declared function of each "def" node of file f, with the position of
\* its element
Callables(f) == {i + 1 : i \in {j \in 1..Len(NodesOf(f)) : NodesOf(f)[j].kind = "def"}}

\* C22: with the completeness check on, a function or method with a doc blob
\* and a declared return type gets a medium missing_return_doc issue exactly
\* when the blob has no return documentation and its name is not one of main,
\* setup, teardown, __init__; other double-underscore names are not exempt.
C22_MissingReturnDoc ==
    config.check_completeness =>
        \A f \in FileIds :
            \A i \in Callables(f) :
                (HasDoc(ElementAt(f, i).docstring) /\ ElementAt(f, i).return_info) =>
                    /\ IssuesFor(f, i, {"missing_return_doc"}) # {}
                       <=> /\ ~_has_return_documentation(ElementAt(f, i).docstring)
                           /\ ElementAt(f, i).name \notin
                                 {N("main"), N("setup"), N("teardown"), Dunder("init")}
                    /\ \A k \in IssuesFor(f, i, {"missing_return_doc"}) :
                          Results[f].issues[k].severity = "medium"

\* the inline tags of a doc blob that name exactly parameter p, for a style
TagsNaming(doc, style, p) ==
    {i \in 1..Len(doc.lines) : doc.lines[i].k = style /\ doc.lines[i].name = p}

\* C23: with the format check on and the style sphinx, javadoc or jsdoc, a
\* function or method with a doc blob gets exactly one low format_violation
\* issue for each declared parameter that no inline tag names exactly, and
\* none for a parameter that has such a tag.
C23_TagPerParameter ==
    (config.check_format /\ config.style \in {"sphinx", "javadoc", "jsdoc"}) =>
        \A f \in FileIds :
            \A i \in Callables(f) :
                HasDoc(ElementAt(f, i).docstring) =>
                    /\ \A p \in Range(ElementAt(f, i).parameters) :
                          Cardinality({k \in IssuesFor(f, i, {"format_violation"}) :
                                          Results[f].issues[k].message.a = <<p>>})
                          = IF TagsNaming(ElementAt(f, i).docstring, config.style, p) = {}
                            THEN 1 ELSE 0
                    /\ \A k \in IssuesFor(f, i, {"format_violation"}) :
                          Results[f].issues[k].severity = "low"

\* the parameters of the callable at position i, without the receiver
\* when the callable is declared in a class body
ExplicitParams(f, i) ==
    IF ParentsOf(f)[i - 1] = "class"
    THEN Range(ElementAt(f, i).parameters) \ {"self", "cls"}
    ELSE Range(ElementAt(f, i).parameters)

\* C24: with the format check on and the google style, a function or method
\* with a doc blob gets a low issue for a missing Args: header exactly when
\* it has a parameter other than the receiver and the blob has no Args:
\* header, and a low issue for a missing Returns: header exactly when it
\* declares a return type and the blob has no Returns: header.
C24_GoogleHeaders ==
    (config.check_format /\ config.style = "google") =>
        \A f \in FileIds :
            \A i \in Callables(f) :
                HasDoc(ElementAt(f, i).docstring) =>
                    /\ (\E k \in IssuesFor(f, i, {"format_violation"}) :
                           Results[f].issues[k].message.t =
                               "Google-style docstring should have 'Args:' section")
                       <=> /\ ExplicitParams(f, i) # {}
                           /\ ~\E n \in 1..Len(ElementAt(f, i).docstring.lines) :
                                  /\ ElementAt(f, i).docstring.lines[n].k = "hdr"
                                  /\ ElementAt(f, i).docstring.lines[n].name = "Args"
                    /\ (\E k \in IssuesFor(f, i, {"format_violation"}) :
                           Results[f].issues[k].message.t =
                               "Google-style docstring should have 'Returns:' section")
                       <=> /\ ElementAt(f, i).return_info
                           /\ ~\E n \in 1..Len(ElementAt(f, i).docstring.lines) :
                                  /\ ElementAt(f, i).docstring.lines[n].k = "hdr"
                                  /\ ElementAt(f, i).docstring.lines[n].name = "Returns"
                    /\ \A k \in IssuesFor(f, i, {"format_violation"}) :
                          Results[f].issues[k].severity = "low"

\* the coverage scores of the files of one language, in file order
ScoresOf(lang) ==
    [i \in 1..Len(SelectSeq(Results, LAMBDA r : r.language = lang)) |->
        SelectSeq(Results, LAMBDA r : r.language = lang)[i].coverage_score]

\* the aggregates of the ProjectResult are the fold of its FileResults
FoldOfFiles ==
    /\ project_result.total_elements =
          SeqSum([f \in FileIds |-> Results[f].total_elements])
    /\ project_result.documented_elements =
          SeqSum([f \in FileIds |-> Results[f].documented_elements])
    /\ IF project_result.total_elements = 0
       THEN project_result.overall_coverage = Frac(1, 1)
       ELSE FracEq(project_result.overall_coverage,
                   Frac(project_result.documented_elements,
                        project_result.total_elements))
    /\ DOMAIN project_result.coverage_by_language = {Results[f].language : f \in FileIds}
    /\ \A lang \in DOMAIN project_result.coverage_by_language :
          FracEq(project_result.coverage_by_language[lang],
                 Frac(FracSum(ScoresOf(lang)).num,
                      FracSum(ScoresOf(lang)).den * Len(ScoresOf(lang))))

\* C25: the aggregator is a pure fold over the FileResults: the step that
\* computes the project metrics leaves every FileResult as it was, and after
\* it overallCoverage is the ratio of the summed counts (1.0 when no element
\* counts) and coverageByLanguage[L] is the mean of the coverage scores of
\* the files of language L.
C25_AggregatorPureFold ==
    [][(pc = "analyze" /\ pc' = "evaluate") =>
          /\ project_result'.files = project_result.files
          /\ FoldOfFiles']_vars

\* two files with different coverage scores and with issues: the mean of the
\* scores differs from the overall ratio
C25_Witness ==
    /\ pc = "evaluate"
    /\ Len(Results) = 2
    /\ Results[1].issues # <<>> /\ Results[2].issues # <<>>
    /\ project_result.total_elements > 0
    /\ ~FracEq(project_result.coverage_by_language["python"],
               project_result.overall_coverage)

\* the FileResult of file k as the rule engine leaves it
RuleEngineResult(k) ==
    check_file(config, [FileAnalysisResult(k, "python")
                        EXCEPT !.elements = parse_file(files[k])])

\* what the rule engine owns in a FileResult: the status of each element
\* and the coverage figures
StatusView(file_result) ==
    [status |-> [i \in 1..Len(file_result.elements) |-> file_result.elements[i].status],
     total_elements |-> file_result.total_elements,
     documented_elements |-> file_result.documented_elements,
     coverage_score |-> file_result.coverage_score]

StatusViews(pr) == [f \in 1..Len(pr.files) |-> StatusView(pr.files[f])]

\* C26: the status of each element of a FileResult is written once, by the
\* rule engine, when the file is analysed; the quality evaluator, the
\* aggregator and the project-level consistency pass leave every element's
\* status and the file's totalElements, documentedElements and coverageScore
\* as the rule engine left them, also when they add medium issues.
C26_StatusWrittenOnce ==
    [][IF pc = "analyze" /\ idx <= Len(files)
       THEN StatusViews(project_result') =
                StatusViews(project_result)
                \o (IF files[idx].raises THEN <<>>
                    ELSE <<StatusView(RuleEngineResult(idx))>>)
       ELSE StatusViews(project_result') = StatusViews(project_result)]_vars

\* an element that the rule engine found Excellent keeps that status with a
\* medium issue of the evaluator, in a run whose consistency pass has added
\* terminology issues
C26_Witness ==
    /\ pc = "done"
    /\ TerminologyIssues # {}
    /\ \E f \in FileIds :
          \E i \in ElementIds(f) :
              /\ ElementAt(f, i).status = EXCELLENT
              /\ \E k \in IssuesFor(f, i, {"readability_poor"}) :
                    Results[f].issues[k].severity = "medium"

\* C27: when analyze_project returns, every issue of a FileResult's issue
\* list is also referenced by the element it points to: its message is among
\* that element's issues, file-level style issues and project-level
\* terminology issues included.
C27_IssuesReferencedByElement ==
    pc = "done" =>
        \A f \in FileIds :
            \A k \in 1..Len(Results[f].issues) :
                Results[f].issues[k].message \in
                    Range(ElementAt(f, Results[f].issues[k].element).issues)

\* C28: successive analyze_project calls on one orchestrator are isolated:
\* when a call returns, the terminology table holds only the terms collected
\* from the FileResults of that call, and the call's result is the one a
\* fresh orchestrator gives, so no term variant of an earlier call causes a
\* terminology_inconsistency issue.
C28_RunsIsolated ==
    pc = "done" =>
        /\ project_terminology = CollectAll(<<>>, Results)
        /\ project_result = analyze_project(config, hashOrder, files)

\* the missing_documentation issues of file f, as positions in its issue list
MissingIssues(f) ==
    {k \in 1..Len(Results[f].issues) :
        Results[f].issues[k].issue_type = "missing_documentation"}

\* C29: with the presence check on, coverage and presence issues agree: a
\* file has as many missing_documentation issues as totalElements -
\* documentedElements, and a should-document element is counted as
\* undocumented exactly when a missing_documentation issue was raised for
\* it, also when its doc blob is empty or whitespace-only.
C29_CoverageAgreesWithPresence ==
    config.check_presence =>
        \A f \in FileIds :
            /\ Cardinality(MissingIssues(f)) =
                  Results[f].total_elements - Results[f].documented_elements
            /\ \A i \in ShouldIds(f) :
                  i \notin DocumentedIds(f)
                  <=> IssuesFor(f, i, {"missing_documentation"}) # {}

\* C30: after a file is analysed, every method held in the `methods` of a
\* class element carries the status and the issues the rule engine derived
\* for its declaration, those of the file's element for the same declaration,
\* and no documented method held there is left with the status Missing.
C30_OwnedMethodsCarryResults ==
    \A f \in FileIds :
        \A method \in MethodsOf(f) :
            /\ \E i \in ElementIds(f) :
                  /\ ElementAt(f, i).name = method.name
                  /\ ElementAt(f, i).parameters = method.parameters
                  /\ ElementAt(f, i).docstring = method.docstring
                  /\ ElementAt(f, i).status = method.status
                  /\ ElementAt(f, i).issues = method.issues
            /\ HasDoc(method.docstring) => method.status # MISSING

====
